---- MODULE Spec2Model ----
(***************************************************************************)
(* RepoAtlas analyzer: indexing pipeline, the three language packs (TS/JS, *)
(* Python, Java), the architecture reduction and the scoring engine, as    *)
(* composed by analyzeRepository.                                          *)
(*                                                                         *)
(* Representation.  A repo-relative path is a sequence of segments; a      *)
(* segment is a record [stem, n, mark, ext] standing for the string        *)
(* stem ++ digits(n) ++ mark ++ ext (n = 0: no digits), so that the code's *)
(* string operations (extname, dirname, suffix regexes) are computed on    *)
(* structure.  File text is represented by what the extraction regexes     *)
(* yield from it (import specifiers, package declaration, complexity       *)
(* counts, entry-point markers).                                           *)
(***************************************************************************)
EXTENDS Integers, Sequences, FiniteSets, TLC

\* ------------------------------------------------------------------ bounds
MaxSpecs == 2        \* import specifiers per generated small-tree file
MaxFolders == 55     \* folders of the largest generated ring tree
MaxRingFanout == 5   \* imports per file in a generated ring tree

\* ------------------------------------------------------- program constants
MAX_ANALYSIS_TIME_MS == 120000
ARCH_NODE_CAP == 50
ARCH_EDGE_CAP == 200
MAX_DEPTH == 10
MAX_FILE_COUNT == 10000
START_HERE_LIMIT == 12

\* ------------------------------------------------------------------- paths
Seg(stem, n, mark, ext) == [stem |-> stem, n |-> n, mark |-> mark, ext |-> ext]
F(stem, mark, ext) == Seg(stem, 0, mark, ext)
D(stem) == Seg(stem, 0, "", "")

NoPath == << >>      \* null / undefined where a path is expected

Last(p) == p[Len(p)]
Dirname(p) == SubSeq(p, 1, Len(p) - 1)

IsPrefix(p, q) == Len(p) <= Len(q) /\ SubSeq(q, 1, Len(p)) = p

\* path.extname of the last segment: the text from the last dot on
Extname(s) ==
  IF s.ext # "" THEN s.ext
  ELSE IF s.mark \in {".test", ".spec"} THEN s.mark ELSE ""

SeqToSet(s) == {s[i] : i \in 1..Len(s)}

\* Map.get(k) ?? d on a map held as a function
Get(m, k, d) == IF k \in DOMAIN m THEN m[k] ELSE d

Min2(a, b) == IF a < b THEN a ELSE b
Max2(a, b) == IF a > b THEN a ELSE b

\* Math.round(num / den) for num >= 0, den > 0 (round half up)
RoundDiv(num, den) == (2 * num + den) \div (2 * den)

\* num / den lies halfway between two integers
HalfwayDiv(num, den) == (2 * num) % (2 * den) = den

\* ------------------------------------------------- Number (IEEE-754 double)
\* The scores are computed in JavaScript Numbers.  A non-negative double is
\* held as [m, e] for the value m * 2^e; m is a natural number written as its
\* digits in base Limb, least significant first, so that no intermediate
\* value leaves the integers TLC has.  Every operation computes the exact
\* result and rounds it to 53 significant bits, ties to even.
Limb == 2 ^ 15

RECURSIVE BnNorm(_)
BnNorm(a) == IF a = << >> \/ a[Len(a)] # 0 THEN a ELSE BnNorm(SubSeq(a, 1, Len(a) - 1))

RECURSIVE BnOfInt(_)
BnOfInt(i) == IF i = 0 THEN << >> ELSE << i % Limb >> \o BnOfInt(i \div Limb)

RECURSIVE BnToInt(_)
BnToInt(a) == IF a = << >> THEN 0 ELSE Head(a) + Limb * BnToInt(Tail(a))

RECURSIVE BnAddC(_, _, _)
BnAddC(a, b, c) ==
  IF a = << >> /\ b = << >> THEN (IF c = 0 THEN << >> ELSE << c >>)
  ELSE LET x == (IF a = << >> THEN 0 ELSE Head(a)) + (IF b = << >> THEN 0 ELSE Head(b)) + c
       IN << x % Limb >> \o BnAddC(IF a = << >> THEN a ELSE Tail(a),
                                   IF b = << >> THEN b ELSE Tail(b), x \div Limb)

BnAdd(a, b) == BnAddC(a, b, 0)

\* a - b - c for a >= b + c
RECURSIVE BnSubB(_, _, _)
BnSubB(a, b, c) ==
  IF a = << >> THEN << >>
  ELSE LET x == Head(a) - (IF b = << >> THEN 0 ELSE Head(b)) - c
       IN << x % Limb >> \o BnSubB(Tail(a), IF b = << >> THEN b ELSE Tail(b),
                                   IF x < 0 THEN 1 ELSE 0)

BnSub(a, b) == BnNorm(BnSubB(a, b, 0))

RECURSIVE BnMulSmallC(_, _, _)
BnMulSmallC(a, k, c) ==
  IF a = << >> THEN (IF c = 0 THEN << >> ELSE << c >>)
  ELSE LET x == Head(a) * k + c
       IN << x % Limb >> \o BnMulSmallC(Tail(a), k, x \div Limb)

RECURSIVE BnMulAcc(_, _)
BnMulAcc(a, b) ==
  IF b = << >> THEN << >>
  ELSE BnAdd(BnMulSmallC(a, Head(b), 0), << 0 >> \o BnMulAcc(a, Tail(b)))

BnMul(a, b) == BnNorm(BnMulAcc(a, b))

\* -1, 0 or 1 as a < b, a = b or a > b
RECURSIVE BnCmp(_, _)
BnCmp(a, b) ==
  IF Len(a) # Len(b) THEN (IF Len(a) < Len(b) THEN -1 ELSE 1)
  ELSE IF a = << >> THEN 0
  ELSE IF a[Len(a)] # b[Len(b)] THEN (IF a[Len(a)] < b[Len(b)] THEN -1 ELSE 1)
  ELSE BnCmp(SubSeq(a, 1, Len(a) - 1), SubSeq(b, 1, Len(b) - 1))

\* quotient and remainder of a by n, 0 < n < Limb: long division from the
\* most significant digit
RECURSIVE BnDivStep(_, _, _)
BnDivStep(a, n, r) ==
  IF a = << >> THEN [q |-> << >>, r |-> r]
  ELSE LET x == r * Limb + a[Len(a)]
           rest == BnDivStep(SubSeq(a, 1, Len(a) - 1), n, x % n)
       IN [q |-> Append(rest.q, x \div n), r |-> rest.r]

BnDivSmall(a, n) ==
  LET d == BnDivStep(a, n, 0) IN [q |-> BnNorm(d.q), r |-> d.r]

RECURSIVE BitLenSmall(_)
BitLenSmall(x) == IF x = 0 THEN 0 ELSE 1 + BitLenSmall(x \div 2)

BnBitLen(a) == IF a = << >> THEN 0 ELSE 15 * (Len(a) - 1) + BitLenSmall(a[Len(a)])

BnShl(a, k) ==
  IF a = << >> THEN a
  ELSE [i \in 1..(k \div 15) |-> 0] \o BnMulSmallC(a, 2 ^ (k % 15), 0)

BnShr(a, k) ==
  IF Len(a) <= k \div 15 THEN << >>
  ELSE BnDivSmall(SubSeq(a, k \div 15 + 1, Len(a)), 2 ^ (k % 15)).q

\* the double nearest to m * 2^e (plus a non-zero fraction of 2^e below it
\* when sticky), ties to even
RoundUp(q, c, sticky) == c > 0 \/ (c = 0 /\ (sticky \/ (q # << >> /\ Head(q) % 2 = 1)))

RoundShifted(m, e, sticky, shift, q) ==
  [m |-> IF RoundUp(q, BnCmp(BnSub(m, BnShl(q, shift)), BnShl(<< 1 >>, shift - 1)), sticky)
           THEN BnAdd(q, << 1 >>) ELSE q,
   e |-> e + shift]

RoundToBits(m, e, sticky, shift) ==
  IF shift <= 0 THEN [m |-> m, e |-> e] ELSE RoundShifted(m, e, sticky, shift, BnShr(m, shift))

RoundToDouble(m, e, sticky) == RoundToBits(m, e, sticky, BnBitLen(m) - 53)

DoubleOfInt(i) == [m |-> BnOfInt(i), e |-> 0]
DoubleOfHalves(h) == [m |-> BnOfInt(h), e |-> -1]    \* h * 0.5, exact

\* the literals 0.2, 0.25 and 0.1 as doubles (0x1.999999999999ap-3, 2^-2 and
\* 0x1.999999999999ap-4)
Double_0_2 == [m |-> << 6554, 13107, 26214, 204 >>, e |-> -55]
Double_0_25 == [m |-> << 1 >>, e |-> -2]
Double_0_1 == [m |-> << 6554, 13107, 26214, 204 >>, e |-> -56]

DoubleMul(x, y) == RoundToDouble(BnMul(x.m, y.m), x.e + y.e, FALSE)

DoubleAligned(x, y) ==
  LET e == Min2(x.e, y.e) IN [a |-> BnShl(x.m, x.e - e), b |-> BnShl(y.m, y.e - e), e |-> e]

DoubleAdd(x, y) ==
  IF x.m = << >> THEN y ELSE IF y.m = << >> THEN x
  ELSE LET al == DoubleAligned(x, y) IN RoundToDouble(BnAdd(al.a, al.b), al.e, FALSE)

\* x - y for x >= y
DoubleSub(x, y) ==
  IF y.m = << >> THEN x
  ELSE LET al == DoubleAligned(x, y) IN RoundToDouble(BnSub(al.a, al.b), al.e, FALSE)

DoubleLess(x, y) ==
  IF x.m = << >> THEN y.m # << >> ELSE IF y.m = << >> THEN FALSE
  ELSE LET al == DoubleAligned(x, y) IN BnCmp(al.a, al.b) < 0

\* Math.min
DoubleMin(x, y) == IF DoubleLess(y, x) THEN y ELSE x

\* x / n for an integer 0 < n < Limb: the quotient is taken with more than
\* 53 bits and the remainder decides the ties
DoubleDivInt(x, n) ==
  IF x.m = << >> THEN x
  ELSE LET d == BnDivSmall(BnShl(x.m, 70), n) IN RoundToDouble(d.q, x.e - 70, d.r # 0)

\* Math.round: floor(x + 0.5), taken exactly
MathRound(x) ==
  IF x.e >= 0 THEN BnToInt(BnShl(x.m, x.e))
  ELSE BnToInt(BnShr(BnAdd(BnShl(x.m, 1), BnShl(<< 1 >>, -x.e)), 1 - x.e))

\* --------------------------------------------- String.prototype.localeCompare
\* Collation order of the stems the generated trees use (case-insensitive,
\* punctuation first), and of the name suffixes mark ++ ext; "/" stands for
\* "the path continues below this directory".
StemOrder ==
  << "__init__", "__tests__", "app", "Bar", "build", "com", "CONTRIBUTING",
     "core", "data", "dist", "docs", "f", "Foo", "gen", "index", "java", "lib",
     "LICENSE", "main", "mod", "Mod", "package", "pkg", "README", "src",
     "test", "test_mod", "tests", "util", "Util" >>

SuffixOrder ==
  << <<"", "">>, <<"_test", ".py">>, <<"", ".java">>, <<"", ".json">>,
     <<"", ".md">>, <<"", ".py">>, <<".spec", ".ts">>, <<".test", ".ts">>,
     <<"", ".ts">>, <<"", ".tsx">>, <<"/", "">>, <<"IT", ".java">>,
     <<"Test", ".java">>, <<"Tests", ".java">> >>

StemRank(s) == CHOOSE i \in 1..Len(StemOrder) : StemOrder[i] = s
SuffixRank(m, e) == CHOOSE i \in 1..Len(SuffixOrder) : SuffixOrder[i] = <<m, e>>

SegKey(p, i) ==
  << StemRank(p[i].stem), p[i].n,
     IF i < Len(p) /\ p[i].mark = "" /\ p[i].ext = ""
       THEN SuffixRank("/", "") ELSE SuffixRank(p[i].mark, p[i].ext) >>

KeyLess(a, b) ==
  \/ a[1] < b[1]
  \/ a[1] = b[1] /\ a[2] < b[2]
  \/ a[1] = b[1] /\ a[2] = b[2] /\ a[3] < b[3]

\* a.localeCompare(b) < 0 on two paths
LocaleLess(p, q) ==
  \E i \in 1..(Len(q)) :
     /\ \A j \in 1..(i - 1) : j <= Len(p) /\ SegKey(p, j) = SegKey(q, j)
     /\ \/ i = Len(p) + 1
        \/ i <= Len(p) /\ KeyLess(SegKey(p, i), SegKey(q, i))


\* ------------------------------------------------------------- file system
\* fs.existsSync(workspace/p): a file of the tree or one of its directories
existsSync(p, disk) ==
  p # NoPath /\ (p \in disk \/ \E f \in disk : Len(f) > Len(p) /\ IsPrefix(p, f))

IsPlainName(s, names) == s.n = 0 /\ s.mark = "" /\ s.ext = "" /\ s.stem \in names

MinOf(S) == CHOOSE i \in S : \A j \in S : i <= j

\* ---------------------------------------------------- architecture reduction
\* Group order of sortedFolders / sortedPackages: degree desc, file count
\* desc, name asc.
GroupBefore(a, b, degree, counts) ==
  \/ degree[a] > degree[b]
  \/ degree[a] = degree[b] /\ counts[a] > counts[b]
  \/ degree[a] = degree[b] /\ counts[a] = counts[b] /\ LocaleLess(a, b)

\* Edge order: weight desc, from asc, to asc.  An edge is given as
\* << weight, position of from, position of to >>, the positions being those
\* of the two groups in localeCompare order.
EdgeBefore(e, g) ==
  \/ e[1] > g[1]
  \/ e[1] = g[1] /\ e[2] < g[2]
  \/ e[1] = g[1] /\ e[2] = g[2] /\ e[3] < g[3]

\* Array.prototype.slice(0, cap) applied to a length
SliceLen(len, cap) == Min2(len, cap)

\* the comparisons with >= in place of >
NodesCapped_AtCap(total) == total >= ARCH_NODE_CAP
EdgesCapped_AtCap(fullEdgeCount) == fullEdgeCount >= ARCH_EDGE_CAP

\* if (sortedFolders.length > ARCH_NODE_CAP), if (fullEdgeCount > ARCH_EDGE_CAP)
NodesCapped(total) == total > ARCH_NODE_CAP
EdgesCapped(fullEdgeCount) == fullEdgeCount > ARCH_EDGE_CAP

\* buildReducedArchitecture of the three packs (the same code up to the
\* grouping function and the word "folders"/"packages" in the warnings).
\* files: the pack's file sequence; imports: file -> set of targets;
\* groupOf: path -> group, defined on files and on every target.
buildReducedArchitecture(files, imports, groupOf, unit) ==
  LET fileSet == SeqToSet(files)
      groups == {groupOf[f] : f \in fileSet}
      counts == [g \in groups |-> Cardinality({f \in fileSet : groupOf[f] = g})] @@ << >>
      fileEdges == UNION {{<<a, b>> : b \in imports[a]} : a \in DOMAIN imports}
      edgeKeys == {<<groupOf[e[1]], groupOf[e[2]]>> : e \in fileEdges}
      edgeWeights == [k \in edgeKeys |->
                        Cardinality({e \in fileEdges : groupOf[e[1]] = k[1] /\ groupOf[e[2]] = k[2]})] @@ << >>
      \* folderDegree: sum of the weights of the keys a group is the source
      \* of, plus those it is the target of (a key with from = to counts twice)
      degree == [g \in groups |->
                   Cardinality({e \in fileEdges : groupOf[e[1]] = g})
                 + Cardinality({e \in fileEdges : groupOf[e[2]] = g})] @@ << >>
      rank == [g \in groups |->
                   Cardinality({h \in groups : GroupBefore(h, g, degree, counts)})] @@ << >>
      nNodes == SliceLen(Cardinality(groups), ARCH_NODE_CAP)
      selected == [i \in 1..nNodes |-> CHOOSE g \in groups : rank[g] = i - 1]
      selectedSet == {g \in groups : rank[g] < nNodes}
      kept == {k \in edgeKeys : k[1] \in selectedSet /\ k[2] \in selectedSet}
      pos == [g \in selectedSet |->
                 Cardinality({h \in selectedSet : LocaleLess(h, g)})] @@ << >>
      key == [k \in kept |-> << edgeWeights[k], pos[k[1]], pos[k[2]] >>] @@ << >>
      erank == [k \in kept |->
                   Cardinality({h \in kept : EdgeBefore(key[h], key[k])})] @@ << >>
      nEdges == SliceLen(Cardinality(kept), ARCH_EDGE_CAP)
      edges == [i \in 1..nEdges |->
                   LET k == CHOOSE k \in kept : erank[k] = i - 1
                   IN [from |-> k[1], to |-> k[2], type |-> "import"]]
      fullEdgeCount == Cardinality(kept)
      w1 == IF NodesCapped(Cardinality(groups))
              THEN << [msg |-> "Architecture nodes capped at", cap |-> ARCH_NODE_CAP,
                       unit |-> unit, from |-> Cardinality(groups)] >>
              ELSE << >>
      w2 == IF Len(files) > nNodes
              THEN << [msg |-> "Architecture reduced from file-level", cap |-> Len(files),
                       unit |-> unit, from |-> nNodes] >>
              ELSE << >>
      w3 == IF EdgesCapped(fullEdgeCount)
              THEN << [msg |-> "Architecture edges capped at", cap |-> ARCH_EDGE_CAP,
                       unit |-> "links", from |-> fullEdgeCount] >>
              ELSE << >>
  IN [architecture |->
        [nodes |-> [i \in 1..nNodes |-> [id |-> selected[i], type |-> "folder"]],
         edges |-> edges],
      warnings |-> w1 \o w2 \o w3]

\* ------------------------------------------------------------ TS/JS pack
CODE_EXTENSIONS == {".ts", ".tsx", ".js", ".jsx", ".mjs", ".cjs"}
RESOLUTION_EXTENSIONS == << ".ts", ".tsx", ".js", ".jsx" >>
TsJs_IGNORED_DIRS == {"node_modules", ".next", "dist", "build", "coverage"}

TsJs_isIgnoredPath(p) == \E i \in 1..Len(p) : IsPlainName(p[i], TsJs_IGNORED_DIRS)

\* A TS/JS specifier: rel (starts with "./" or "../"), up (number of leading
\* ".." steps), path (the remaining segments).
TsJs_resolveImport(fromFile, imp, disk) ==
  IF ~imp.rel THEN NoPath
  ELSE
    LET fromDir == Dirname(fromFile) IN
    \* a path that climbs above the workspace root names nothing indexed
    IF imp.up > Len(fromDir) THEN NoPath
    ELSE
      LET base == SubSeq(fromDir, 1, Len(fromDir) - imp.up) \o imp.path
          last == Last(base)
          withExt(e) == SubSeq(base, 1, Len(base) - 1) \o << [last EXCEPT !.ext = e] >>
          cands == [i \in 1..8 |->
                      IF i <= 4 THEN withExt(RESOLUTION_EXTENSIONS[i])
                      ELSE base \o << F("index", "", RESOLUTION_EXTENSIONS[i - 4]) >>]
          hits == {i \in 1..8 : existsSync(cands[i], disk)}
      IN IF Extname(last) # ""
           THEN (IF existsSync(base, disk) THEN base ELSE NoPath)
           ELSE IF hits = {} THEN NoPath ELSE cands[MinOf(hits)]

TsJs_isTestFile(p) ==
  \/ Last(p).mark \in {".test", ".spec"} /\ Last(p).ext \in CODE_EXTENSIONS
  \/ \E i \in 1..(Len(p) - 1) : p[i] = D("__tests__")

TsJs_stripExtension(p) ==
  IF Last(p).ext \in CODE_EXTENSIONS
    THEN Dirname(p) \o << [Last(p) EXCEPT !.ext = ""] >> ELSE p

TsJs_stripTestSuffix(p) ==
  IF Last(p).mark \in {".test", ".spec"} /\ Last(p).ext \in CODE_EXTENSIONS
    THEN Dirname(p) \o << [Last(p) EXCEPT !.mark = "", !.ext = ""] >> ELSE p

StripSrc(p) == IF Len(p) > 1 /\ p[1] = D("src") THEN Tail(p) ELSE p

\* the tier one test file gives filePath in the loop of
\* computeTestProximityScore (0: none)
TsJs_tier(filePath, t) ==
  LET fileDir == Dirname(filePath)
      testDir == Dirname(t)
      strippedFile == TsJs_stripExtension(filePath)
      strippedFileSansSrc == TsJs_stripExtension(StripSrc(filePath))
      mirrored == TsJs_stripTestSuffix(Tail(t))
  IN IF testDir = fileDir THEN 100
     \* `${fileDir}/__tests__`: for a root file fileDir is ".", and no
     \* normalized test path starts with "./"
     ELSE IF fileDir # << >> /\ IsPrefix(fileDir \o << D("__tests__") >>, testDir) THEN 90
     ELSE IF /\ Len(t) > 1 /\ t[1] = D("tests")
             /\ \/ mirrored = strippedFile
                \/ mirrored = strippedFileSansSrc
                \/ Len(mirrored) >= 2 /\ Last(mirrored) = Last(strippedFile)
          THEN 80
     ELSE 0

RECURSIVE TsJs_bestTier(_, _, _, _)
TsJs_bestTier(filePath, testFiles, i, best) ==
  IF i > Len(testFiles) THEN best
  ELSE TsJs_bestTier(filePath, testFiles, i + 1, Max2(best, TsJs_tier(filePath, testFiles[i])))

TsJs_computeTestProximityScore(filePath, testFiles) ==
  IF filePath \in SeqToSet(testFiles) THEN 100
  ELSE TsJs_bestTier(filePath, testFiles, 1, 0)

\* composite score of computeComplexitySignals from its three counts
ComplexityScore(c) == c.branchCount * 3 + c.maxNesting * 2 + RoundDiv(c.loc, 40)


\* ----------------------------------------------------------- Python pack
PY_EXTENSION == ".py"
Python_IGNORED_DIRS ==
  {"venv", ".venv", "site-packages", "dist", "build", "__pycache__",
   ".pytest_cache", ".tox", "eggs", ".eggs"}

Python_isIgnoredPath(p) == \E i \in 1..Len(p) : IsPlainName(p[i], Python_IGNORED_DIRS)

\* The stems of the generated trees that start with "test_", and what is
\* left of them without that prefix.
TestPrefixed == {"test_mod"}
UnTestStem(s) == IF s = "test_mod" THEN "mod" ELSE s

\* TEST_PATTERNS, tested on the whole normalized path
Python_isTestFile(p) ==
  \/ p[1].stem \in TestPrefixed /\ Last(p).ext = PY_EXTENSION
  \/ Last(p).mark = "_test" /\ Last(p).ext = PY_EXTENSION
  \/ Len(p) > 1 /\ (p[1] = D("tests") \/ p[1] = D("test"))

Python_stripExtension(p) ==
  IF Last(p).ext = PY_EXTENSION
    THEN Dirname(p) \o << [Last(p) EXCEPT !.ext = ""] >> ELSE p

\* relPath.replace(/^test_/, "").replace(/_test\.py$/i, ".py")
Python_stripTestSuffix(p) ==
  LET q == [p EXCEPT ![1] = [p[1] EXCEPT !.stem = UnTestStem(p[1].stem)]]
  IN IF Last(q).mark = "_test" /\ Last(q).ext = PY_EXTENSION
       THEN Dirname(q) \o << [Last(q) EXCEPT !.mark = ""] >> ELSE q

Python_tier(filePath, t) ==
  LET fileDir == Dirname(filePath)
      testDir == Dirname(t)
      strippedFile == Python_stripExtension(filePath)
      strippedFileSansSrc == Python_stripExtension(StripSrc(filePath))
      mirroredStripped == Python_stripExtension(Python_stripTestSuffix(Tail(t)))
  IN IF testDir = fileDir THEN 100
     ELSE IF fileDir # << >> /\ IsPrefix(fileDir \o << D("__tests__") >>, testDir) THEN 90
     ELSE IF /\ Len(t) > 1 /\ (t[1] = D("tests") \/ t[1] = D("test"))
             /\ \/ mirroredStripped = strippedFile
                \/ mirroredStripped = strippedFileSansSrc
                \/ Len(mirroredStripped) >= 2 /\ Last(mirroredStripped) = Last(strippedFile)
          THEN 80
     ELSE 0

RECURSIVE Python_bestTier(_, _, _, _)
Python_bestTier(filePath, testFiles, i, best) ==
  IF i > Len(testFiles) THEN best
  ELSE Python_bestTier(filePath, testFiles, i + 1,
                       Max2(best, Python_tier(filePath, testFiles[i])))

Python_computeTestProximityScore(filePath, testFiles) ==
  IF filePath \in SeqToSet(testFiles) THEN 100
  ELSE Python_bestTier(filePath, testFiles, 1, 0)

\* detectPackageRoots: "src/" when a manifest names a src layout or some
\* __init__.py lies under src/, then always the root "".
detectPackageRoots(manifestSrc, disk) ==
  LET srcInit == \E f \in disk : Len(f) > 1 /\ f[1] = D("src") /\ Last(f) = F("__init__", "", ".py")
  IN (IF manifestSrc \/ srcInit THEN << << D("src") >> >> ELSE << >>) \o << << >> >>

\* modulePath: the dotted module name as a sequence of name segments
resolveModulePath(baseDir, modulePath, disk) ==
  IF modulePath = << >> THEN NoPath
  ELSE
    LET n == Len(modulePath)
        dirs == SubSeq(modulePath, 1, n - 1)
        asFile == baseDir \o dirs \o << [modulePath[n] EXCEPT !.ext = ".py"] >>
        asPkg == baseDir \o dirs \o << modulePath[n], F("__init__", "", ".py") >>
    IN IF existsSync(asFile, disk) THEN asFile
       ELSE IF existsSync(asPkg, disk) THEN asPkg
       ELSE NoPath

\* A Python specifier: dots (number of leading dots), mod (the identifiers
\* after them).
Python_resolveImport(fromFile, imp, disk, packageRoots, fileSet) ==
  LET fromDir == Dirname(fromFile) IN
  IF imp.dots > 0
    THEN \* climbing above the workspace root names nothing indexed
         IF imp.dots - 1 > Len(fromDir) THEN NoPath
         ELSE
           LET up == SubSeq(fromDir, 1, Len(fromDir) - (imp.dots - 1))
               resolved == resolveModulePath(up, imp.mod, disk)
               initPath == up \o << F("__init__", "", ".py") >>
           IN IF resolved # NoPath THEN resolved
              ELSE IF imp.mod = << >> /\ initPath \in fileSet THEN initPath
              ELSE NoPath
    ELSE
      LET hits == {i \in 1..Len(packageRoots) :
                      LET r == resolveModulePath(packageRoots[i], imp.mod, disk)
                      IN r # NoPath /\ r \in fileSet}
      IN IF hits = {} THEN NoPath
         ELSE resolveModulePath(packageRoots[MinOf(hits)], imp.mod, disk)

\* ------------------------------------------------------------- Java pack
JAVA_EXTENSION == ".java"
Java_IGNORED_DIRS ==
  {"target", "build", ".gradle", ".idea", "out", "bin", ".settings",
   ".classpath", ".project"}
Java_TEST_MARKS == {"Test", "IT", "Tests", "TestCase"}

Java_isIgnoredPath(p) == \E i \in 1..Len(p) : IsPlainName(p[i], Java_IGNORED_DIRS)

Java_isTestFile(p) == Last(p).mark \in Java_TEST_MARKS /\ Last(p).ext = JAVA_EXTENSION

\* path.basename(filePath, ".java")
BaseName(p) == [stem |-> Last(p).stem, n |-> Last(p).n, mark |-> Last(p).mark]

\* testBase === `${baseName}<suffix>` for a production base name
NamedAfter(t, prod, suffix) ==
  /\ Last(prod).mark = ""
  /\ Last(t).stem = Last(prod).stem /\ Last(t).n = Last(prod).n
  /\ Last(t).mark = suffix

\* index of the "src/<kind>/java/" run in p that the regex in question
\* matches (0: none); lo: the smallest admissible index
MarkerAt(p, kinds, i) ==
  /\ i + 3 <= Len(p)
  /\ p[i] = D("src") /\ p[i + 1] \in {D(k) : k \in kinds} /\ p[i + 2] = D("java")

\* normTest.replace(/\/src\/test\/java\//, "/").replace(/\/[^/]+\.java$/, "")
PackageDirOf(p, kind) ==
  LET at == {i \in 2..Len(p) : MarkerAt(p, {kind}, i)}
      q == IF at = {} THEN p
           ELSE SubSeq(p, 1, MinOf(at) - 1) \o SubSeq(p, MinOf(at) + 3, Len(p))
  IN IF Len(q) > 1 THEN Dirname(q) ELSE q

\* the first loop of computeTestProximityScore: the first test file found
\* in the production file's directory decides (0: no test file there)
RECURSIVE Java_sameDirLoop(_, _, _)
Java_sameDirLoop(prodFile, testFiles, i) ==
  IF i > Len(testFiles) THEN 0
  ELSE IF Dirname(testFiles[i]) = Dirname(prodFile)
    THEN IF \/ NamedAfter(testFiles[i], prodFile, "Test")
            \/ NamedAfter(testFiles[i], prodFile, "Tests")
            \/ NamedAfter(testFiles[i], prodFile, "TestCase") THEN 100
         ELSE IF NamedAfter(testFiles[i], prodFile, "IT") THEN 90
         ELSE 80
  ELSE Java_sameDirLoop(prodFile, testFiles, i + 1)

Java_computeTestProximityScore(prodFile, testFiles) ==
  LET tests == SeqToSet(testFiles)
      sameDir == Java_sameDirLoop(prodFile, testFiles, 1)
      \* /^(.*)src\/main\/java\/(.+)$/ with a greedy prefix: the last run
      at == {i \in 1..Len(prodFile) : MarkerAt(prodFile, {"main"}, i)}
      m == CHOOSE i \in at : \A j \in at : j <= i
      pkgDir == SubSeq(prodFile, m + 3, Len(prodFile) - 1)
      testDir == SubSeq(prodFile, 1, m - 1) \o << D("src"), D("test"), D("java") >> \o pkgDir
      mirror(suffix) ==
        \* with the file directly under src/main/java the built path keeps a
        \* "." segment and equals no normalized path
        /\ pkgDir # << >>
        /\ Last(prodFile).mark = ""
        /\ testDir \o << [Last(prodFile) EXCEPT !.mark = suffix] >> \in tests
  IN IF prodFile \in tests THEN 100
     ELSE IF sameDir # 0 THEN sameDir
     ELSE IF at = {} THEN 0
     ELSE IF mirror("Test") THEN 100
     ELSE IF mirror("IT") THEN 90
     ELSE IF mirror("Tests") THEN 100
     ELSE IF \E t \in tests : PackageDirOf(t, "test") = PackageDirOf(prodFile, "main") THEN 80
     ELSE 0

\* /src\/(?:main|test)\/java\/(.+)\/[^/]+\.java$/ else the directory; the
\* group is the sequence of names that the code joins with "."
toPackagePath(p) ==
  LET at == {i \in 1..Len(p) : MarkerAt(p, {"main", "test"}, i) /\ i + 4 <= Len(p)}
  IN IF at # {} /\ Last(p).ext = JAVA_EXTENSION
       THEN SubSeq(p, MinOf(at) + 3, Len(p) - 1)
       ELSE Dirname(p)

toFolderPath(p) == Dirname(p)

\* A Java specifier: wild (ends with ".*"), pkg (the package identifiers),
\* cls (the class base name; unused when wild).  fqnIndex maps <<pkg, cls>>
\* to a file, packageToFiles maps pkg to a set of files.
Java_resolveImport(imp, fqnIndex, packageToFiles) ==
  IF imp.wild THEN Get(packageToFiles, imp.pkg, {})
  ELSE IF <<imp.pkg, imp.cls>> \in DOMAIN fqnIndex THEN {fqnIndex[<<imp.pkg, imp.cls>>]}
  ELSE {}


\* ------------------------------------------------------- indexing pipeline
KEY_DOC_STEMS == {"README", "CONTRIBUTING", "LICENSE", "CHANGELOG"}
README_STEMS == {"README"}
SKIPPED_ENTRIES == {".git", "node_modules"}

\* KEY_DOC_PATTERNS on the entry name: the stem alone or with one extension
isKeyDoc(p) == Last(p).stem \in KEY_DOC_STEMS /\ Last(p).n = 0 /\ Last(p).mark = ""

\* the files buildFolderMap visits: no skipped entry on the way, and the
\* containing directory is read only at a depth below MAX_DEPTH
Walked(ws) ==
  SelectSeq(ws.order,
            LAMBDA p : /\ ~\E i \in 1..Len(p) : IsPlainName(p[i], SKIPPED_ENTRIES)
                       /\ Len(p) - 1 < MAX_DEPTH)

\* extractRunCommands: one command per script of a package.json that parses
extractRunCommands(ws) ==
  IF ws.packageJson = "ok"
    THEN [i \in 1..Len(ws.npmScripts) |->
            [source |-> "package.json", command |-> << "npm run", ws.npmScripts[i] >>,
             description |-> ws.npmScripts[i]]]
    ELSE << >>

\* folder_map: the tree of the visited entries, the children of every
\* directory sorted (directories first, then by path); as a value it is
\* determined by the set of visited files
FolderMap(walked) == SeqToSet(walked)

\* fs.statSync(fullPath).size
StatSize(ws, p) == IF p \in DOMAIN ws.content THEN ws.content[p].size ELSE ws.otherSize

\* a count that runs past the cap
FileCount_Uncapped(walked) == Len(walked)

\* fileCount at the end of the walk: it grows by one per visited file while
\* fileCount < MAX_FILE_COUNT
FileCount(walked) == Min2(Len(walked), MAX_FILE_COUNT)

runIndexingPipeline(ws) ==
  LET walked == Walked(ws)
      fileCount == FileCount(walked)
  IN [file_metadata |->
        [i \in 1..fileCount |->
           [path |-> walked[i], size |-> StatSize(ws, walked[i]),
            extension |-> Extname(Last(walked[i]))]],
      folder_map |-> FolderMap(walked),
      run_commands |-> extractRunCommands(ws),
      key_docs |-> SelectSeq(walked, isKeyDoc),
      warnings |-> IF fileCount >= MAX_FILE_COUNT
                     THEN << [msg |-> "Max file count reached; some files omitted"] >>
                     ELSE << >>]

FmKeys(pl) == [i \in 1..Len(pl.file_metadata) |-> pl.file_metadata[i].path]
FmSize(pl, f) ==
  LET at == {i \in 1..Len(pl.file_metadata) : pl.file_metadata[i].path = f}
  IN IF at = {} THEN 0 ELSE pl.file_metadata[MinOf(at)].size

\* ------------------------------------------------------------ pack results
NullPack ==
  [ran |-> FALSE, files |-> << >>,
   architecture |-> [nodes |-> << >>, edges |-> << >>],
   imports |-> << >>, fanIn |-> << >>, fanOut |-> << >>,
   entrypoints |-> {}, testFiles |-> << >>, complexity |-> << >>,
   loc |-> << >>, maxNesting |-> << >>, testProximity |-> << >>,
   warnings |-> << >>]

\* fan-in that leaves out a file's import of itself
CountFanIn_IgnoringSelf(imports) ==
  [t \in UNION {imports[f] : f \in DOMAIN imports} |->
      Cardinality({f \in DOMAIN imports : t \in imports[f] /\ f # t})] @@ << >>

\* fanIn as the packs accumulate it: one entry per file that is the target
\* of some edge, counting the files that import it
CountFanIn(imports) ==
  [t \in UNION {imports[f] : f \in DOMAIN imports} |->
      Cardinality({f \in DOMAIN imports : t \in imports[f]})] @@ << >>

\* fanOut.set(f, targets.size)
CountFanOut(imports) == [f \in DOMAIN imports |-> Cardinality(imports[f])] @@ << >>

\* for (const f of files) if (!fanIn.has(f)) fanIn.set(f, 0)
ZeroFill(fanIn, fileSet) == [f \in fileSet \cup DOMAIN fanIn |-> Get(fanIn, f, 0)] @@ << >>

TsJs_files(pl) ==
  SelectSeq(FmKeys(pl),
            LAMBDA f : Extname(Last(f)) \in CODE_EXTENSIONS /\ ~TsJs_isIgnoredPath(f))

TsJs_COMMON_ENTRY == {"index", "main", "server", "app"}

\* detectEntrypoints: app-router files, src/{index,main,server,app}.<ext>,
\* and the script paths of package.json that name a pack file
TsJs_detectEntrypoints(fileSet, scriptPaths) ==
  LET plain(s, stem) == s.stem = stem /\ s.n = 0 /\ s.mark = "" /\ s.ext \in CODE_EXTENSIONS
      underApp(f) == \/ Len(f) >= 2 /\ f[1] = D("app")
                     \/ Len(f) >= 3 /\ f[1] = D("src") /\ f[2] = D("app")
      appAt(f) == IF f[1] = D("app") THEN 1 ELSE 2
      router(f) ==
        /\ underApp(f)
        /\ \/ Len(f) = appAt(f) + 1 /\ (plain(Last(f), "page") \/ plain(Last(f), "layout"))
           \/ /\ Len(f) >= appAt(f) + 3 /\ f[appAt(f) + 1] = D("api")
              /\ plain(Last(f), "route")
      common(f) == /\ Len(f) = 2 /\ f[1] = D("src")
                   /\ \E st \in TsJs_COMMON_ENTRY : plain(f[2], st)
  IN {f \in fileSet : router(f) \/ common(f)} \cup (scriptPaths \cap fileSet)

runTsJsPack(ws, pl) ==
  LET files == TsJs_files(pl)
      fileSet == SeqToSet(files)
      disk == SeqToSet(ws.order)
      indexed == SeqToSet(FmKeys(pl))
      testFiles == SelectSeq(files, TsJs_isTestFile)
      \* a file whose read throws is skipped by `continue`
      read == {f \in fileSet : ws.content[f].readable}
      imports == [f \in read |->
                    {r \in {TsJs_resolveImport(f, imp, disk) : imp \in ws.content[f].specs} :
                        r # NoPath /\ r \in indexed /\ ~TsJs_isIgnoredPath(r)}] @@ << >>
      targets == UNION {imports[f] : f \in read}
      groupOf == [f \in fileSet \cup targets |-> toFolderPath(f)]
      arch == buildReducedArchitecture(files, imports, groupOf, "folders")
  IN [ran |-> TRUE, files |-> files,
      architecture |-> arch.architecture,
      imports |-> imports,
      fanIn |-> CountFanIn(imports),
      fanOut |-> CountFanOut(imports),
      entrypoints |-> TsJs_detectEntrypoints(fileSet,
                         IF ws.packageJson = "ok" THEN ws.npmScriptPaths ELSE {}),
      testFiles |-> testFiles,
      complexity |-> [f \in read |-> ComplexityScore(ws.content[f])] @@ << >>,
      loc |-> [f \in read |-> ws.content[f].loc] @@ << >>,
      maxNesting |-> [f \in read |-> ws.content[f].maxNesting] @@ << >>,
      testProximity |-> [f \in read |-> TsJs_computeTestProximityScore(f, testFiles)] @@ << >>,
      warnings |-> (IF ws.packageJson = "broken"
                      THEN << [msg |-> "Could not parse package.json for entrypoints"] >>
                      ELSE << >>) \o arch.warnings]


Python_files(pl) ==
  SelectSeq(FmKeys(pl),
            LAMBDA f : Extname(Last(f)) = PY_EXTENSION /\ ~Python_isIgnoredPath(f))

COMMON_ENTRY_NAMES == {"main", "app", "cli", "server", "manage", "run"}

\* detectEntrypoints: __main__.py, the common entry file names, and the
\* console-script modules of pyproject.toml / setup.py (as given, or under src/)
Python_detectEntrypoints(fileSet, scriptPaths) ==
  LET named(f) == /\ Last(f).n = 0 /\ Last(f).mark = "" /\ Last(f).ext = PY_EXTENSION
                  /\ Last(f).stem \in COMMON_ENTRY_NAMES \cup {"__main__"}
      script(c) == IF c \in fileSet THEN {c}
                   ELSE IF << D("src") >> \o c \in fileSet THEN {<< D("src") >> \o c}
                   ELSE {}
  IN {f \in fileSet : named(f)} \cup UNION {script(c) : c \in scriptPaths}

runPythonPack(ws, pl) ==
  LET files == Python_files(pl)
      fileSet == SeqToSet(files)
      disk == SeqToSet(ws.order)
      indexed == SeqToSet(FmKeys(pl))
      packageRoots == detectPackageRoots(ws.pyManifest = "src-layout", disk)
      testFiles == SelectSeq(files, Python_isTestFile)
      imports == [f \in fileSet |->
                    IF ~ws.content[f].readable THEN {}
                    ELSE {r \in {Python_resolveImport(f, imp, disk, packageRoots, fileSet) :
                                    imp \in ws.content[f].specs} :
                             r # NoPath /\ r \in indexed /\ ~Python_isIgnoredPath(r)}] @@ << >>
      targets == UNION {imports[f] : f \in fileSet}
      groupOf == [f \in fileSet \cup targets |-> toFolderPath(f)]
      arch == buildReducedArchitecture(files, imports, groupOf, "folders")
      signal(f, v) == IF ws.content[f].readable THEN v ELSE 0
  IN IF files = << >> THEN [NullPack EXCEPT !.ran = TRUE]
     ELSE
     [ran |-> TRUE, files |-> files,
      architecture |-> arch.architecture,
      imports |-> imports,
      fanIn |-> ZeroFill(CountFanIn(imports), fileSet),
      fanOut |-> CountFanOut(imports),
      entrypoints |-> Python_detectEntrypoints(fileSet,
                         IF ws.pyManifest # "none" THEN ws.pyScriptPaths ELSE {}),
      testFiles |-> testFiles,
      complexity |-> [f \in fileSet |-> signal(f, ComplexityScore(ws.content[f]))] @@ << >>,
      loc |-> [f \in fileSet |-> signal(f, ws.content[f].loc)] @@ << >>,
      maxNesting |-> [f \in fileSet |-> signal(f, ws.content[f].maxNesting)] @@ << >>,
      testProximity |-> [f \in fileSet |-> Python_computeTestProximityScore(f, testFiles)] @@ << >>,
      warnings |-> arch.warnings]

Java_files(pl) ==
  SelectSeq(FmKeys(pl),
            LAMBDA f : Extname(Last(f)) = JAVA_EXTENSION /\ ~Java_isIgnoredPath(f))

\* buildFqnIndex: a later file of the same fully-qualified name replaces an
\* earlier one; unreadable files are skipped
buildFqnIndex(files, ws) ==
  LET read == {i \in 1..Len(files) : ws.content[files[i]].readable}
      fqn(i) == << ws.content[files[i]].pkg, BaseName(files[i]) >>
  IN [k \in {fqn(i) : i \in read} |->
        files[CHOOSE i \in read : fqn(i) = k /\ \A j \in read : fqn(j) = k => j <= i]] @@ << >>

buildPackageToFilesMap(files, ws) ==
  LET read == {f \in SeqToSet(files) : ws.content[f].readable}
  IN [k \in {ws.content[f].pkg : f \in read} |->
        {f \in read : ws.content[f].pkg = k}] @@ << >>

JAVA_ENTRY_MARKERS == {"spring", "controller", "jaxrs", "main"}

Java_detectEntrypoints(files, ws) ==
  LET fileSet == SeqToSet(files)
      read == {f \in fileSet : ws.content[f].readable}
      mains == {i \in 1..Len(files) :
                  files[i] \in read /\ ws.content[files[i]].entry = "main"}
  IN [entrypoints |-> {f \in read : ws.content[f].entry \in JAVA_ENTRY_MARKERS},
      warnings |-> IF Cardinality(mains) > 1
                     THEN << [msg |-> "Multiple main() entrypoints detected",
                              count |-> Cardinality(mains)] >>
                     ELSE << >>]

runJavaPack(ws, pl) ==
  LET files == Java_files(pl)
      fileSet == SeqToSet(files)
      indexed == SeqToSet(FmKeys(pl))
      fqnIndex == buildFqnIndex(files, ws)
      packageToFiles == buildPackageToFilesMap(files, ws)
      testFiles == SelectSeq(files, Java_isTestFile)
      eps == Java_detectEntrypoints(files, ws)
      imports == [f \in fileSet |->
                    IF ~ws.content[f].readable THEN {}
                    ELSE {r \in UNION {Java_resolveImport(imp, fqnIndex, packageToFiles) :
                                          imp \in ws.content[f].specs} :
                             r \in indexed /\ ~Java_isIgnoredPath(r) /\ r # f}] @@ << >>
      groupOf == [f \in fileSet |-> toPackagePath(f)]
      arch == buildReducedArchitecture(files, imports, groupOf, "packages")
      signal(f, v) == IF ws.content[f].readable THEN v ELSE 0
  IN IF files = << >> THEN [NullPack EXCEPT !.ran = TRUE]
     ELSE
     [ran |-> TRUE, files |-> files,
      architecture |-> arch.architecture,
      imports |-> imports,
      fanIn |-> ZeroFill(CountFanIn(imports), fileSet),
      fanOut |-> CountFanOut(imports),
      entrypoints |-> eps.entrypoints,
      testFiles |-> testFiles,
      complexity |-> [f \in fileSet |-> signal(f, ComplexityScore(ws.content[f]))] @@ << >>,
      loc |-> [f \in fileSet |-> signal(f, ws.content[f].loc)] @@ << >>,
      maxNesting |-> [f \in fileSet |-> signal(f, ws.content[f].maxNesting)] @@ << >>,
      testProximity |-> [f \in fileSet |-> Java_computeTestProximityScore(f, testFiles)] @@ << >>,
      warnings |-> eps.warnings \o arch.warnings]


\* ------------------------------------------------------------------ scoring
Reason(text, n) == [text |-> text, n |-> n]

\* the raw value passed through, and the scale turned upside down
normalizeScore_Unscaled(v, min, max) == v
normalizeScore_Inverted(v, min, max) ==
  IF max = min THEN 100 ELSE RoundDiv((max - v) * 100, max - min)

\* normalizeScores on one value, given the minimum and maximum of the list
\* Math.round(((v - min) / (max - min)) * 100).  The double differs from the
\* exact quotient by less than 2^-40, so it rounds as the exact quotient does
\* unless that lies halfway between two integers; only then is the double
\* arithmetic carried out.
normalizeScore(v, min, max) ==
  IF max = min THEN 100
  ELSE IF HalfwayDiv((v - min) * 100, max - min)
    THEN MathRound(DoubleMul(DoubleDivInt(DoubleOfInt(v - min), max - min), DoubleOfInt(100)))
  ELSE RoundDiv((v - min) * 100, max - min)

RECURSIVE Bfs(_, _, _, _)
Bfs(imports, distance, frontier, d) ==
  IF frontier = {} THEN distance
  ELSE LET next == (UNION {Get(imports, f, {}) : f \in frontier}) \ DOMAIN distance
       IN Bfs(imports, distance @@ [t \in next |-> d + 1], next, d + 1)

\* a search that stops at the files the entry points import themselves
computeEntrypointDistance_DirectOnly(entrypoints, imports) ==
  LET direct == (UNION {Get(imports, e, {}) : e \in entrypoints}) \ entrypoints
  IN [e \in entrypoints |-> 0] @@ [t \in direct |-> 1] @@ << >>

computeEntrypointDistance(entrypoints, imports) ==
  Bfs(imports, [e \in entrypoints |-> 0] @@ << >>, entrypoints, 0)

DocBonus(doc) ==
  LET name == Last(doc)
      base == IF name.stem \in README_STEMS /\ name.n = 0 /\ name.mark = ""
                THEN IF name.ext \in {".md", ""}
                       THEN << 95, Reason("root README documentation", 0) >>
                       ELSE << 80, Reason("README documentation", 0) >>
              ELSE IF name.stem = "CONTRIBUTING"
                THEN << 75, Reason("contribution guide", 0) >>
              ELSE << 45, Reason("key project documentation", 0) >>
      \* normalizedDoc.includes("/docs/")
      docs == \E i \in 2..(Len(doc) - 1) : doc[i] = D("docs")
  IN [rawScore |-> base[1] + (IF docs THEN 5 ELSE 0),
      reasons |-> << base[2] >> \o
                  (IF docs THEN << Reason("project docs reference", 0) >> ELSE << >>)]

FanInBonus(fanIn, unit) ==
  IF fanIn > 0
    THEN [rawScore |-> Min2(35, fanIn * 3), reasons |-> << Reason(unit, fanIn) >>]
    ELSE [rawScore |-> 0, reasons |-> << >>]

DistanceBonus_Linear(distance, f) ==
  IF f \notin DOMAIN distance THEN [rawScore |-> 0, reasons |-> << >>]
  ELSE IF distance[f] = 0
    THEN [rawScore |-> 90, reasons |-> << Reason("detected entrypoint", 0) >>]
  ELSE IF distance[f] <= 3
    THEN [rawScore |-> 18 - distance[f] * 4,
          reasons |-> << Reason("within import hops of an entrypoint", distance[f]) >>]
  ELSE [rawScore |-> 0, reasons |-> << >>]

DistanceBonus(distance, f) ==
  IF f \notin DOMAIN distance THEN [rawScore |-> 0, reasons |-> << >>]
  ELSE IF distance[f] = 0
    THEN [rawScore |-> 90, reasons |-> << Reason("detected entrypoint", 0) >>]
  ELSE IF distance[f] = 1
    THEN [rawScore |-> 35, reasons |-> << Reason("directly imported by an entrypoint", 0) >>]
  ELSE IF distance[f] <= 3
    THEN [rawScore |-> 18 - distance[f] * 4,
          reasons |-> << Reason("within import hops of an entrypoint", distance[f]) >>]
  ELSE [rawScore |-> 0, reasons |-> << >>]

TsJs_structural(f) ==
  LET plain(s, stems) == s.stem \in stems /\ s.n = 0 /\ s.mark = "" /\ s.ext \in CODE_EXTENSIONS
      n == Len(f)
      \* /\/app\/api\/.+\/route\.<ext>$/ : "app" is not the first segment
      route == /\ plain(f[n], {"route"})
               /\ \E i \in 2..(n - 3) : f[i] = D("app") /\ f[i + 1] = D("api")
      under == n >= 3 /\ f[n - 1] = D("app")
  IN IF route THEN [rawScore |-> 85, reasons |-> << Reason("Next.js route handler", 0) >>]
     ELSE IF under /\ plain(f[n], {"page"})
       THEN [rawScore |-> 80, reasons |-> << Reason("Next.js page entry", 0) >>]
     ELSE IF under /\ plain(f[n], {"layout"})
       THEN [rawScore |-> 75, reasons |-> << Reason("Next.js layout entry", 0) >>]
     ELSE IF n >= 2 /\ plain(f[n], {"router", "routes"})
       THEN [rawScore |-> 65, reasons |-> << Reason("router module", 0) >>]
     ELSE [rawScore |-> 0, reasons |-> << >>]

Python_structural(f) ==
  LET s == Last(f)
      is(stems) == s.stem \in stems /\ s.n = 0 /\ s.mark = "" /\ s.ext = PY_EXTENSION
  IN IF is({"__main__"}) THEN [rawScore |-> 90, reasons |-> << Reason("runnable module (__main__.py)", 0) >>]
     ELSE IF is({"manage"}) THEN [rawScore |-> 85, reasons |-> << Reason("Django management command", 0) >>]
     ELSE IF is({"main"}) THEN [rawScore |-> 80, reasons |-> << Reason("common entry file", 0) >>]
     ELSE IF is({"app", "server"}) THEN [rawScore |-> 75, reasons |-> << Reason("application entry file", 0) >>]
     ELSE IF is({"cli"}) THEN [rawScore |-> 70, reasons |-> << Reason("CLI entry file", 0) >>]
     ELSE IF is({"settings"}) THEN [rawScore |-> 85, reasons |-> << Reason("Django settings module", 0) >>]
     ELSE IF is({"urls"}) THEN [rawScore |-> 80, reasons |-> << Reason("Django routing configuration", 0) >>]
     ELSE [rawScore |-> 0, reasons |-> << >>]

\* the -40 of the two loops of computeStartHere
TsJs_testPenalty(f) ==
  IF \/ Last(f).mark \in {".test", ".spec"} /\ Last(f).ext \in CODE_EXTENSIONS
     \/ \E i \in 2..(Len(f) - 1) : f[i] = D("__tests__")
    THEN 40 ELSE 0

Python_testPenalty(f) ==
  IF \/ Last(f).stem \in TestPrefixed /\ Last(f).ext = PY_EXTENSION
     \/ Last(f).mark = "_test" /\ Last(f).ext = PY_EXTENSION
     \/ Len(f) > 1 /\ (f[1] = D("tests") \/ f[1] = D("test"))
    THEN 40 ELSE 0

\* reasons are appended unless already present (addReason)
RECURSIVE AddReasons(_, _)
AddReasons(reasons, more) ==
  IF more = << >> THEN reasons
  ELSE AddReasons(IF Head(more) \in SeqToSet(reasons) THEN reasons
                  ELSE Append(reasons, Head(more)), Tail(more))

Plus(a, b) == [rawScore |-> a.rawScore + b.rawScore,
               reasons |-> AddReasons(a.reasons, b.reasons)]

\* the candidate map of computeStartHere after its three loops
StartHereCandidates(pl, tsjs, python) ==
  LET docs == SeqToSet(pl.key_docs)
      keys == FmKeys(pl)
      tsFiles == IF tsjs.ran
                   THEN {f \in SeqToSet(keys) : Extname(Last(f)) \in CODE_EXTENSIONS} ELSE {}
      pyFiles == IF python.ran
                   THEN {f \in SeqToSet(keys) : Extname(Last(f)) = PY_EXTENSION} ELSE {}
      tsDist == computeEntrypointDistance(tsjs.entrypoints, tsjs.imports)
      pyDist == computeEntrypointDistance(python.entrypoints, python.imports)
      zero == [rawScore |-> 0, reasons |-> << >>]
      doc(f) == IF f \in docs THEN DocBonus(f) ELSE zero
      ts(f) == IF f \in tsFiles
                 THEN Plus(Plus(Plus(TsJs_structural(f),
                                     FanInBonus(Get(tsjs.fanIn, f, 0), "imported by files")),
                                DistanceBonus(tsDist, f)),
                           [rawScore |-> 0 - TsJs_testPenalty(f), reasons |-> << >>])
                 ELSE zero
      py(f) == IF f \in pyFiles
                 THEN Plus(Plus(Plus(Python_structural(f),
                                     FanInBonus(Get(python.fanIn, f, 0), "imported by modules")),
                                DistanceBonus(pyDist, f)),
                           [rawScore |-> 0 - Python_testPenalty(f), reasons |-> << >>])
                 ELSE zero
  IN [f \in docs \cup tsFiles \cup pyFiles |-> Plus(Plus(doc(f), ts(f)), py(f))] @@ << >>

\* an order that breaks ties by path descending
CandidateBefore_PathDescending(a, b, cand) ==
  \/ cand[a].rawScore > cand[b].rawScore
  \/ cand[a].rawScore = cand[b].rawScore /\ LocaleLess(b, a)

CandidateBefore(a, b, cand) ==
  \/ cand[a].rawScore > cand[b].rawScore
  \/ cand[a].rawScore = cand[b].rawScore /\ LocaleLess(a, b)

Survives(c) == c.rawScore > 0 /\ c.reasons # << >>

\* the ranked candidate paths: filtered, sorted, sliced
StartHereRanked(cand) ==
  LET alive == {f \in DOMAIN cand : Survives(cand[f])}
      rank == [f \in alive |-> Cardinality({g \in alive : CandidateBefore(g, f, cand)})] @@ << >>
      n == SliceLen(Cardinality(alive), START_HERE_LIMIT)
  IN [i \in 1..n |-> CHOOSE f \in alive : rank[f] = i - 1]

computeStartHere(pl, tsjs, python) ==
  LET cand == StartHereCandidates(pl, tsjs, python)
      ranked == StartHereRanked(cand)
      raws == {cand[ranked[i]].rawScore : i \in 1..Len(ranked)}
      min == CHOOSE v \in raws : \A w \in raws : v <= w
      max == CHOOSE v \in raws : \A w \in raws : v >= w
  IN [i \in 1..Len(ranked) |->
        [path |-> ranked[i],
         score |-> normalizeScore(cand[ranked[i]].rawScore, min, max),
         explanation |-> cand[ranked[i]].reasons]]

\* percentileRank in half-units: 2 * below + equal, to be divided by
\* 2 * count and multiplied by 100
\* a rank that counts the values above instead of the values below
HalfRank_Above(values, files, v) ==
  2 * Cardinality({i \in 1..Len(files) : values[i] > v})
    + Cardinality({i \in 1..Len(files) : values[i] = v})

HalfRank(values, files, v) ==
  2 * Cardinality({i \in 1..Len(files) : values[i] < v})
    + Cardinality({i \in 1..Len(files) : values[i] = v})

\* the exact value of weightedRisk as the fraction num / den, with
\* P = 100 * h / (2 n), and its rounding
WeightedRiskNum(hs, hfi, hfo, hc, ht, n) == 5 * (4 * hs + 5 * hfi + 4 * hfo + 5 * hc - 2 * ht) + 20 * n
WeightedRiskDen(n) == 2 * n
RiskScore(num, den) == RoundDiv(Max2(0, Min2(100 * den, num)), den)

\* percentileRank of a value with half-rank h = 2 * below + equal among n
\* values: Math.max(0, Math.min(100, ((below + equal * 0.5) / n) * 100))
percentileRank(h, n) ==
  IF n = 0 THEN DoubleOfInt(0)
  ELSE DoubleMin(DoubleOfInt(100), DoubleMul(DoubleDivInt(DoubleOfHalves(h), n), DoubleOfInt(100)))

\* 0.2 * sizeP + 0.25 * fanInP + 0.2 * fanOutP + 0.25 * complexityP
\*   + 0.1 * weakTestP, summed from left to right
RECURSIVE SumLeftToRight(_)
SumLeftToRight(terms) ==
  IF terms = << >> THEN DoubleOfInt(0)
  ELSE DoubleAdd(SumLeftToRight(SubSeq(terms, 1, Len(terms) - 1)), terms[Len(terms)])

weightedRisk(hs, hfi, hfo, hc, ht, n) ==
  LET halfRank == << hs, hfi, hfo, hc, ht >>
      weight == << Double_0_2, Double_0_25, Double_0_2, Double_0_25, Double_0_1 >>
      rank == [i \in 1..5 |-> percentileRank(halfRank[i], n)]
      \* weakTestP = 100 - testProximityP
      p == [i \in 1..5 |-> IF i = 5 THEN DoubleSub(DoubleOfInt(100), rank[i]) ELSE rank[i]]
  IN SumLeftToRight([i \in 1..5 |-> DoubleMul(weight[i], p[i])])

\* Math.round(Math.max(0, Math.min(100, weightedRisk)))
riskScore(w) == MathRound(DoubleMin(DoubleOfInt(100), w))

\* the score of a file with the given half-ranks among n files.  The double
\* sum differs from the exact value by less than 2^-40, so it rounds as the
\* exact value does unless that lies halfway between two integers; only then
\* is the double arithmetic carried out.
DangerScore(hs, hfi, hfo, hc, ht, n) ==
  LET num == WeightedRiskNum(hs, hfi, hfo, hc, ht, n)
      den == WeightedRiskDen(n)
  IN IF HalfwayDiv(num, den) THEN riskScore(weightedRisk(hs, hfi, hfo, hc, ht, n))
     ELSE RiskScore(num, den)

computeDangerZones(pl, tsjs, python) ==
  LET keys == FmKeys(pl)
      tsjsFiles == IF tsjs.ran
                     THEN SelectSeq(keys, LAMBDA f : Extname(Last(f)) \in CODE_EXTENSIONS)
                     ELSE << >>
      pythonFiles == IF python.ran
                       THEN SelectSeq(keys, LAMBDA f : Extname(Last(f)) = PY_EXTENSION)
                       ELSE << >>
      files == tsjsFiles \o pythonFiles
      n == Len(files)
      pack(f) == IF Extname(Last(f)) = PY_EXTENSION THEN python ELSE tsjs
      size == [i \in 1..n |-> FmSize(pl, files[i])] @@ << >>
      fanIn == [i \in 1..n |-> Get(pack(files[i]).fanIn, files[i], 0)] @@ << >>
      fanOut == [i \in 1..n |-> Get(pack(files[i]).fanOut, files[i], 0)] @@ << >>
      complexity == [i \in 1..n |-> Get(pack(files[i]).complexity, files[i], 0)] @@ << >>
      testProximity == [i \in 1..n |-> Get(pack(files[i]).testProximity, files[i], 0)] @@ << >>
      score == [i \in 1..n |->
                  DangerScore(HalfRank(size, files, size[i]),
                              HalfRank(fanIn, files, fanIn[i]),
                              HalfRank(fanOut, files, fanOut[i]),
                              HalfRank(complexity, files, complexity[i]),
                              HalfRank(testProximity, files, testProximity[i]), n)] @@ << >>
      \* items.sort((a, b) => b.score - a.score): stable
      before(sj, si, j, i) == sj > si \/ (sj = si /\ j < i)
      rank == [i \in 1..n |->
                  Cardinality({j \in 1..n : before(score[j], score[i], j, i)})] @@ << >>
      order == [k \in 1..n |-> CHOOSE i \in 1..n : rank[i] = k - 1]
      item(i, proximity) ==
        [path |-> files[i],
         score |-> score[i],
         note |-> IF proximity = 0 THEN "no nearby tests"
                  ELSE IF proximity < 80 THEN "low test proximity" ELSE "",
         metrics |-> [size |-> size[i], fan_in |-> fanIn[i],
                      fan_out |-> fanOut[i], complexity |-> complexity[i],
                      test_proximity |-> proximity]]
      at(k) == item(k, testProximity[k])
  IN [k \in 1..n |-> at(order[k])]


\* ------------------------------------------------------ generated workspaces
\* A workspace is what ingestRepo leaves on disk, as the analyzer reads it:
\*   order: the files in the order the directory walk meets them,
\*   content: per file, whether readFileSync succeeds, the stat size, and
\*            what the pack's regexes extract from the text,
\*   otherSize: the stat size of the files without an entry in content
\*            (files no pack reads),
\*   packageJson: "none" | "ok" | "broken" (JSON.parse throws),
\*   npmScripts: the names of its scripts,
\*   npmScriptPaths: the paths named by the dev/start/build scripts,
\*   pyManifest: "none" | "flat" | "src-layout", pyScriptPaths: the modules
\*            of its console scripts.
Entry(path, readable, specs, pkg, entry) ==
  [path |-> path, readable |-> readable, specs |-> specs, pkg |-> pkg, entry |-> entry]

Code(path, readable, specs) == Entry(path, readable, specs, << >>, "none")
Other(path) == Entry(path, TRUE, {}, << >>, "none")

Tree(listing, packageJson, npmScriptPaths, pyManifest, pyScriptPaths) ==
  [order |-> [i \in 1..Len(listing) |-> listing[i].path],
   content |->
     [p \in {listing[i].path : i \in 1..Len(listing)} |->
        LET i == CHOOSE j \in 1..Len(listing) : listing[j].path = p
        IN [readable |-> listing[i].readable, size |-> 120 * i,
            specs |-> listing[i].specs, pkg |-> listing[i].pkg,
            entry |-> listing[i].entry,
            loc |-> 30 * i, branchCount |-> i % 4, maxNesting |-> i % 3]],
   packageJson |-> packageJson, npmScriptPaths |-> npmScriptPaths,
   otherSize |-> 0,
   npmScripts |-> IF packageJson = "none" THEN << >> ELSE << "dev", "test" >>,
   pyManifest |-> pyManifest, pyScriptPaths |-> pyScriptPaths]

UpTo(S, k) == {T \in SUBSET S : Cardinality(T) <= k}
Opt(present, e) == IF present THEN << e >> ELSE << >>

\* ---- a small TS/JS tree
TsSpec(rel, up, path) == [rel |-> rel, up |-> up, path |-> path]

TsIndex == << D("src"), F("index", "", ".ts") >>
TsUtil == << D("src"), F("util", "", ".ts") >>
TsUtilTest == << D("src"), F("util", ".test", ".ts") >>
TsData == << D("src"), F("data", "", ".json") >>
TsCore == << D("src"), D("lib"), F("core", "", ".ts") >>
TsCoreNearTest == << D("src"), D("lib"), D("__tests__"), F("core", ".test", ".ts") >>
TsCoreMirrorTest == << D("tests"), D("lib"), F("core", ".test", ".ts") >>
TsGen == << D("dist"), F("gen", "", ".ts") >>
Readme == << F("README", "", ".md") >>
PackageJson == << F("package", "", ".json") >>

ImportSelf == TsSpec(TRUE, 0, << D("index") >>)                   \* "./index"
ImportUtil == TsSpec(TRUE, 0, << D("util") >>)                    \* "./util"
ImportData == TsSpec(TRUE, 0, << F("data", "", ".json") >>)       \* "./data.json"
ImportCore == TsSpec(TRUE, 0, << D("lib"), D("core") >>)          \* "./lib/core"
ImportGen == TsSpec(TRUE, 1, << D("dist"), D("gen") >>)           \* "../dist/gen"
ImportExternal == TsSpec(FALSE, 0, << D("lib") >>)                \* "lib"
ImportIndexFromLib == TsSpec(TRUE, 1, << D("index") >>)           \* "../index"

ImportUtilTest == TsSpec(TRUE, 0, << Seg("util", 0, ".test", "") >>)  \* "./util.test"

TsPool == {ImportSelf, ImportUtil, ImportData, ImportCore, ImportGen, ImportExternal,
           ImportUtilTest}
TsTests == {TsUtilTest, TsCoreNearTest, TsCoreMirrorTest}

TsTree(specs, utilReadable, tests, packageJson) ==
  Tree(<< Other(Readme) >>
       \o Opt(packageJson # "none", Other(PackageJson))
       \o << Code(TsIndex, TRUE, specs), Code(TsUtil, utilReadable, {}) >>
       \o Opt(TsUtilTest \in tests, Code(TsUtilTest, TRUE, {ImportUtil}))
       \o << Other(TsData), Code(TsCore, TRUE, {ImportIndexFromLib}) >>
       \o Opt(TsCoreNearTest \in tests, Code(TsCoreNearTest, TRUE, {}))
       \o Opt(TsCoreMirrorTest \in tests, Code(TsCoreMirrorTest, TRUE, {}))
       \o << Code(TsGen, TRUE, {}) >>,
       packageJson, {TsUtil}, "none", {})

TsTrees ==
  {TsTree(sp, r, TsTests, "none") : sp \in UpTo(TsPool, MaxSpecs), r \in BOOLEAN}
  \cup {TsTree({ImportUtil}, r, t, "none") : r \in BOOLEAN, t \in SUBSET TsTests}
  \cup {TsTree({ImportCore}, TRUE, {}, pj) : pj \in {"ok", "broken"}}

\* ---- a small Python tree
PySpec(dots, mod) == [dots |-> dots, mod |-> mod]

PyMain == << F("main", "", ".py") >>
PyInit == << D("pkg"), F("__init__", "", ".py") >>
PyMod == << D("pkg"), F("mod", "", ".py") >>
PyCore == << D("pkg"), F("core", "", ".py") >>
PyNearTest == << D("pkg"), F("test_mod", "", ".py") >>
PyMirrorTest == << D("tests"), D("pkg"), F("mod", "_test", ".py") >>

FromDot == PySpec(1, << >>)                         \* "."       (from . import x)
FromDotMod == PySpec(1, << D("mod") >>)             \* ".mod"
FromUpMod == PySpec(2, << D("pkg"), D("mod") >>)    \* "..pkg.mod"
ImportPkg == PySpec(0, << D("pkg") >>)              \* "pkg"
ImportPkgMod == PySpec(0, << D("pkg"), D("mod") >>) \* "pkg.mod"
ImportStdlib == PySpec(0, << D("lib") >>)           \* a module outside the tree

PyPool == {FromDot, FromDotMod, FromUpMod, ImportPkg, ImportPkgMod, ImportStdlib}
PyTests == {PyNearTest, PyMirrorTest}

\* the specifiers are those of pkg/__init__.py; main.py imports pkg.mod
PyTree(specs, modReadable, tests, pyManifest) ==
  Tree(<< Other(Readme), Code(PyMain, TRUE, {ImportPkgMod}),
          Code(PyInit, TRUE, specs), Code(PyMod, modReadable, {}),
          Code(PyCore, TRUE, {FromDotMod}) >>
       \o Opt(PyNearTest \in tests, Code(PyNearTest, TRUE, {FromDotMod}))
       \o Opt(PyMirrorTest \in tests, Code(PyMirrorTest, TRUE, {ImportPkgMod})),
       "none", {}, pyManifest, {PyCore})

PyTrees ==
  {PyTree(sp, r, PyTests, "none") : sp \in UpTo(PyPool, MaxSpecs), r \in BOOLEAN}
  \cup {PyTree({FromDotMod}, r, t, "none") : r \in BOOLEAN, t \in SUBSET PyTests}
  \cup {PyTree({}, TRUE, {}, m) : m \in {"flat", "src-layout"}}

\* ---- a small Java tree (Maven layout)
JavaSpec(wild, pkg, cls) == [wild |-> wild, pkg |-> pkg, cls |-> cls]
Class(stem, mark) == [stem |-> stem, n |-> 0, mark |-> mark]

ComApp == << D("com"), D("app") >>
ComCore == << D("com"), D("core") >>
MainJava == << D("src"), D("main"), D("java") >>
TestJava == << D("src"), D("test"), D("java") >>

JFoo == MainJava \o ComApp \o << F("Foo", "", ".java") >>
JBar == MainJava \o ComApp \o << F("Bar", "", ".java") >>
JFooTest == MainJava \o ComApp \o << F("Foo", "Test", ".java") >>
JBarTest == MainJava \o ComApp \o << F("Bar", "Test", ".java") >>
JFooIT == MainJava \o ComApp \o << F("Foo", "IT", ".java") >>
JUtil == MainJava \o ComCore \o << F("Util", "", ".java") >>
JUtilTest == TestJava \o ComCore \o << F("Util", "Test", ".java") >>

ImportBar == JavaSpec(FALSE, ComApp, Class("Bar", ""))       \* com.app.Bar
ImportFoo == JavaSpec(FALSE, ComApp, Class("Foo", ""))       \* com.app.Foo
ImportAppAll == JavaSpec(TRUE, ComApp, Class("", ""))        \* com.app.*
ImportCoreAll == JavaSpec(TRUE, ComCore, Class("", ""))      \* com.core.*
ImportJdk == JavaSpec(FALSE, << D("java"), D("util") >>, Class("Util", ""))

JavaPool == {ImportBar, ImportFoo, ImportAppAll, ImportCoreAll, ImportJdk}

\* the orders in which the walk can meet the test files of com/app
JavaTestOrders ==
  {<< >>, << JBarTest >>, << JFooTest >>, << JFooIT >>,
   << JBarTest, JFooTest >>, << JFooTest, JBarTest >>,
   << JFooIT, JFooTest >>, << JFooTest, JFooIT >>}

\* the specifiers are those of Foo.java
JavaTree(specs, barReadable, tests, utilTest) ==
  Tree(<< Other(Readme),
          Entry(JFoo, TRUE, specs, ComApp, "spring"),
          Entry(JBar, barReadable, {ImportCoreAll}, ComApp, "none") >>
       \o [i \in 1..Len(tests) |-> Entry(tests[i], TRUE, {ImportFoo}, ComApp, "none")]
       \o << Entry(JUtil, TRUE, {}, ComCore, "main") >>
       \o Opt(utilTest, Entry(JUtilTest, TRUE, {ImportCoreAll}, ComCore, "none")),
       "none", {}, "none", {})

JavaTrees ==
  {JavaTree(sp, r, << JBarTest, JFooTest >>, TRUE) : sp \in UpTo(JavaPool, MaxSpecs), r \in BOOLEAN}
  \cup {JavaTree({ImportBar}, TRUE, t, u) : t \in JavaTestOrders, u \in BOOLEAN}

\* ---- ring trees: n folders f10, f11, ... of one file each; the file of
\* folder i imports the files of the next k folders around the ring
RingSizes == {ARCH_NODE_CAP - 1, ARCH_NODE_CAP, ARCH_NODE_CAP + 1, MaxFolders}
RingFolder(i) == Seg("f", 9 + i, "", "")
RingNext(i, j, n) == ((i + j - 1) % n) + 1

RingFile(eco, i) ==
  << RingFolder(i),
     IF eco = "tsjs" THEN F("mod", "", ".ts")
     ELSE IF eco = "python" THEN F("mod", "", ".py") ELSE F("Mod", "", ".java") >>

RingSpec(eco, t) ==
  IF eco = "tsjs" THEN TsSpec(TRUE, 1, << RingFolder(t), D("mod") >>)
  ELSE IF eco = "python" THEN PySpec(0, << RingFolder(t), D("mod") >>)
  ELSE JavaSpec(FALSE, << RingFolder(t) >>, Class("Mod", ""))

RingTree(eco, n, k) ==
  Tree([i \in 1..n |->
          Entry(RingFile(eco, i), TRUE,
                {RingSpec(eco, RingNext(i, j, n)) : j \in 1..k},
                IF eco = "java" THEN << RingFolder(i) >> ELSE << >>, "none")],
       "none", {}, "none", {})

RingFanouts == {1, MaxRingFanout - 1, MaxRingFanout}

RingTrees ==
  {RingTree(eco, n, k) : eco \in {"tsjs", "python", "java"}, n \in RingSizes,
                         k \in RingFanouts}

\* ---- a tree of two ecosystems and a tree of none
Contributing == << F("CONTRIBUTING", "", ".md") >>
License == << F("LICENSE", "", "") >>
DocsReadme == << D("pkg"), D("docs"), F("README", "", ".md") >>

MixedTree ==
  Tree(<< Other(Readme), Other(Contributing),
          Code(TsIndex, TRUE, {ImportUtil}), Code(TsUtil, TRUE, {}),
          Code(PyMain, TRUE, {ImportPkgMod}), Code(PyMod, TRUE, {}),
          Other(DocsReadme) >>,
       "none", {}, "none", {})

\* a Python project whose only TS/JS file is a generated one under dist/
GeneratedTsTree ==
  Tree(<< Other(Readme), Code(TsGen, TRUE, {}),
          Code(PyMain, TRUE, {ImportPkgMod}), Code(PyMod, TRUE, {}) >>,
       "none", {}, "none", {})

DocsTree == Tree(<< Other(Readme), Other(License), Other(Contributing) >>,
                 "none", {}, "none", {})

ScriptsTree == Tree(<< Other(Readme), Other(PackageJson), Other(License) >>,
                    "ok", {}, "none", {})

ReadmeOnlyTree == Tree(<< Other(Readme) >>, "none", {}, "none", {})

\* a root README.md and the README.md of each of k packages
PackageReadme(i) == << RingFolder(i), F("README", "", ".md") >>

MonorepoDocsTree(k) ==
  Tree(<< Other(Readme) >> \o [i \in 1..k |-> Other(PackageReadme(i))],
       "none", {}, "none", {})

MonorepoDocsTrees ==
  {MonorepoDocsTree(k) : k \in {START_HERE_LIMIT - 1, START_HERE_LIMIT}}

\* n data files at the root, after one file under node_modules and one file
\* in a directory at depth MAX_DEPTH
BulkFile(i) == << Seg("data", i, "", ".json") >>
VendoredFile == << D("node_modules"), D("lib"), F("index", "", ".ts") >>
DeepFile == [i \in 1..MAX_DEPTH |-> RingFolder(i)] \o << F("data", "", ".json") >>

BulkTree(n) ==
  LET order == << VendoredFile, DeepFile >> \o [i \in 1..n |-> BulkFile(i)]
  IN [order |-> order,
      content |->
        [p \in {VendoredFile} |->
           [readable |-> TRUE, size |-> 120, specs |-> {}, pkg |-> << >>,
            entry |-> "none", loc |-> 30, branchCount |-> 0, maxNesting |-> 0]],
      otherSize |-> 120,
      packageJson |-> "none", npmScriptPaths |-> {}, npmScripts |-> << >>,
      pyManifest |-> "none", pyScriptPaths |-> {}]

BulkTrees ==
  {BulkTree(n) : n \in {MAX_FILE_COUNT - 1, MAX_FILE_COUNT, MAX_FILE_COUNT + 1}}

\* as many folders as there may be nodes, each with a mod.ts that imports the
\* util.ts next to it, and one folder more whose mod.ts imports the mod.ts of
\* the first folder
PairedUtil(i) == << RingFolder(i), F("util", "", ".ts") >>

PairedTree ==
  Tree([i \in 1..(2 * ARCH_NODE_CAP + 1) |->
          IF i > 2 * ARCH_NODE_CAP
            THEN Code(RingFile("tsjs", ARCH_NODE_CAP + 1), TRUE, {RingSpec("tsjs", 1)})
          ELSE IF i % 2 = 1
            THEN Code(RingFile("tsjs", (i + 1) \div 2), TRUE, {ImportUtil})
          ELSE Code(PairedUtil(i \div 2), TRUE, {})],
       "none", {}, "none", {})

Workspaces ==
  TsTrees \cup PyTrees \cup JavaTrees \cup RingTrees \cup MonorepoDocsTrees \cup BulkTrees
  \cup {MixedTree, DocsTree, ScriptsTree, ReadmeOnlyTree, PairedTree, GeneratedTsTree}

\* -------------------------------------------------------------- API errors
\* a thrown value: an AppError, another Error, or a value that is no Error
AppError(code, status, message) ==
  [kind |-> "AppError", code |-> code, status |-> status, message |-> message]
PlainError(message) == [kind |-> "Error", code |-> "", status |-> 0, message |-> message]
ThrownValue(text) == [kind |-> "value", code |-> "", status |-> 0, message |-> text]
NoError == [kind |-> "none", code |-> "", status |-> 0, message |-> ""]

isAppError(err) == err.kind = "AppError"

toAppError(err) ==
  IF isAppError(err) THEN err
  ELSE AppError("ANALYSIS_FAILED", 500, "Analysis failed. Check server logs.")

USER_MESSAGES ==
  [code \in {"INVALID_INPUT", "INVALID_URL", "ZIP_NOT_FOUND", "ZIP_INVALID", "REPO_TOO_LARGE",
              "CLONE_TIMEOUT", "TIMEOUT", "REPO_NOT_PUBLIC", "CLONE_FAILED", "ANALYSIS_FAILED"} |->
     CASE code = "INVALID_INPUT" -> "Provide githubUrl or zipRef"
       [] code = "INVALID_URL" ->
            "Please enter a valid GitHub URL (e.g. https://github.com/owner/repo)"
       [] code = "ZIP_NOT_FOUND" -> "Zip path not found. Check the path or re-upload."
       [] code = "ZIP_INVALID" -> "Invalid or corrupted zip file."
       [] code = "REPO_TOO_LARGE" ->
            "Repository exceeds the 100MB limit. Try a smaller repo or a specific branch."
       [] code = "CLONE_TIMEOUT" ->
            "Cloning timed out. The repo may be too large or the network slow. Try again or use a smaller repo."
       [] code = "TIMEOUT" ->
            "Analysis timed out. The repo may be too large or complex. Try a smaller repo or a specific branch."
       [] code = "REPO_NOT_PUBLIC" ->
            "Repository is private or not found. RepoAtlas only analyzes public GitHub repos."
       [] code = "CLONE_FAILED" ->
            "Could not clone the repository. Check the URL and that the repo is public."
       [] code = "ANALYSIS_FAILED" -> "Analysis failed. Check server logs."]

ErrorResponse(status, code, message) ==
  [status |-> status, code |-> code, message |-> message, reportId |-> ""]
NoResponse == ErrorResponse(0, "", "")

\* a payload that passes the text of the thrown value on
toApiErrorPayload_RawMessage(err) ==
  ErrorResponse(toAppError(err).status, toAppError(err).code, err.message)

toApiErrorPayload(err) ==
  LET appErr == toAppError(err)
  IN ErrorResponse(appErr.status, appErr.code, USER_MESSAGES[appErr.code])

\* what the walk, the packs and the scoring can throw: errors of the file
\* system calls they make, or any other value
AnalysisErrors ==
  {PlainError("ENOENT: no such file or directory, stat"),
   PlainError("EACCES: permission denied, scandir"),
   ThrownValue("Maximum call stack size exceeded")}

\* what fs.promises.writeFile rejects with
SaveErrors == {PlainError("ENOSPC: no space left on device, write")}

\* ------------------------------------------------------- analyzeRepository
VARIABLES ws, pc, pipeline, tsjsResult, pythonResult, javaResult,
          startHere, dangerZones, report

\* POST /api/analyze: the request body, the position of the handler, the
\* position of the analyzeRepository call it races against its timer, the
\* milliseconds since the timer was set, the value analyzeRepository is about
\* to reject with, the value the handler's catch block received, and the
\* response
VARIABLES request, route, phase, clock, failure, caught, response

\* what ingestFromGithub did (clone), and the workspace analyzeRepository
\* holds: whether ingestRepo returned it, how often its cleanup was invoked
\* and how far saveReport got
VARIABLES clone, workspace

routeVars == << request, route, phase, clock, failure, caught, response, clone, workspace >>

vars == << ws, pc, pipeline, tsjsResult, pythonResult, javaResult,
           startHere, dangerZones, report,
           request, route, phase, clock, failure, caught, response, clone, workspace >>

\* clone: branch: the URL names a branch (/tree/<ref>); first, retry: the
\* outcome of the first git clone and of the retry without --branch; dir:
\* the temporary directory when ingestFromGithub returns or throws
NoClone == [branch |-> FALSE, first |-> "none", retry |-> "none", dir |-> "none"]

NoWorkspace == [returned |-> FALSE, cleanups |-> 0, saveReport |-> "pending"]

NoRequest == [githubUrl |-> "none", zipRef |-> "none"]

\* no request is being served
RouteIdle ==
  /\ request = NoRequest
  /\ route = "idle"
  /\ phase = "none"
  /\ clock = 0
  /\ failure = NoError
  /\ caught = NoError
  /\ response = NoResponse
  /\ clone = NoClone
  /\ workspace = NoWorkspace

NoPipeline == [file_metadata |-> << >>,
               folder_map |-> {}, run_commands |-> << >>,
               key_docs |-> << >>, warnings |-> << >>]
NoReport == [folder_map |-> {}, architecture |-> [nodes |-> << >>, edges |-> << >>],
             start_here |-> << >>, danger_zones |-> << >>, run_commands |-> << >>,
             contribute_signals |-> [key_docs |-> << >>], warnings |-> << >>]

TSJS_EXTENSIONS == {".ts", ".tsx", ".js", ".jsx", ".mjs", ".cjs"}
PYTHON_EXTENSIONS == {".py"}
JAVA_EXTENSIONS == {".java"}

HasFiles(pl, exts) == \E i \in 1..Len(pl.file_metadata) : pl.file_metadata[i].extension \in exts

Init ==
  /\ ws \in Workspaces
  /\ pc = "ingested"
  /\ pipeline = NoPipeline
  /\ tsjsResult = NullPack
  /\ pythonResult = NullPack
  /\ javaResult = NullPack
  /\ startHere = << >>
  /\ dangerZones = << >>
  /\ report = NoReport
  /\ RouteIdle

RunIndexingPipeline ==
  /\ pc = "ingested"
  /\ pipeline' = runIndexingPipeline(ws)
  /\ pc' = "indexed"
  /\ UNCHANGED << ws, tsjsResult, pythonResult, javaResult, startHere, dangerZones, report >>
  /\ UNCHANGED routeVars

RunTsJsPack ==
  /\ pc = "indexed"
  /\ tsjsResult' = IF HasFiles(pipeline, TSJS_EXTENSIONS)
                     THEN runTsJsPack(ws, pipeline) ELSE NullPack
  /\ pc' = "tsjs"
  /\ UNCHANGED << ws, pipeline, pythonResult, javaResult, startHere, dangerZones, report >>
  /\ UNCHANGED routeVars

RunPythonPack ==
  /\ pc = "tsjs"
  /\ pythonResult' = IF HasFiles(pipeline, PYTHON_EXTENSIONS)
                       THEN runPythonPack(ws, pipeline) ELSE NullPack
  /\ pc' = "python"
  /\ UNCHANGED << ws, pipeline, tsjsResult, javaResult, startHere, dangerZones, report >>
  /\ UNCHANGED routeVars

RunJavaPack ==
  /\ pc = "python"
  /\ javaResult' = IF HasFiles(pipeline, JAVA_EXTENSIONS)
                     THEN runJavaPack(ws, pipeline) ELSE NullPack
  /\ pc' = "java"
  /\ UNCHANGED << ws, pipeline, tsjsResult, pythonResult, startHere, dangerZones, report >>
  /\ UNCHANGED routeVars

ComputeStartHere ==
  /\ pc = "java"
  /\ startHere' = computeStartHere(pipeline, tsjsResult, pythonResult)
  /\ pc' = "startHere"
  /\ UNCHANGED << ws, pipeline, tsjsResult, pythonResult, javaResult, dangerZones, report >>
  /\ UNCHANGED routeVars

ComputeDangerZones ==
  /\ pc = "startHere"
  /\ dangerZones' = computeDangerZones(pipeline, tsjsResult, pythonResult)
  /\ pc' = "dangerZones"
  /\ UNCHANGED << ws, pipeline, tsjsResult, pythonResult, javaResult, startHere, report >>
  /\ UNCHANGED routeVars

\* a variant that reports each missing ecosystem separately in every case
ReportWarnings_PerEcosystem(pl, tsjs, python, java) ==
  pl.warnings \o tsjs.warnings \o python.warnings \o java.warnings
  \o (IF tsjs.ran /\ python.ran THEN << >>
        ELSE << [msg |-> "Deep TS/JS analysis unavailable"] >>)
  \o (IF python.ran THEN << >>
        ELSE << [msg |-> "Deep Python analysis unavailable"] >>)
  \o (IF java.ran THEN << >>
        ELSE << [msg |-> "Deep Java analysis unavailable"] >>)

ReportWarnings(pl, tsjs, python, java) ==
  pl.warnings \o tsjs.warnings \o python.warnings \o java.warnings
  \o (IF ~tsjs.ran /\ ~python.ran /\ ~java.ran
        THEN << [msg |-> "Deep analysis unavailable: no supported source files detected."] >>
        ELSE (IF tsjs.ran THEN << >>
              ELSE << [msg |-> "Deep TS/JS analysis unavailable"] >>)
             \o (IF python.ran THEN << >>
                 ELSE << [msg |-> "Deep Python analysis unavailable"] >>)
             \o (IF java.ran THEN << >>
                 ELSE << [msg |-> "Deep Java analysis unavailable"] >>))

\* the report object, from the results it is assembled from
\* the architecture of the first pack that has nodes to show
ReportOf_FirstWithNodes(pl, tsjs, python, java, sh, dz) ==
  [folder_map |-> pl.folder_map,
   run_commands |-> pl.run_commands,
   contribute_signals |-> [key_docs |-> pl.key_docs],
   architecture |->
     IF tsjs.ran /\ tsjs.architecture.nodes # << >> THEN tsjs.architecture
     ELSE IF python.ran /\ python.architecture.nodes # << >> THEN python.architecture
     ELSE IF java.ran THEN java.architecture
     ELSE [nodes |-> << >>, edges |-> << >>],
   start_here |-> sh,
   danger_zones |-> dz,
   warnings |-> ReportWarnings(pl, tsjs, python, java)]

ReportOf(pl, tsjs, python, java, sh, dz) ==
  [folder_map |-> pl.folder_map,
   run_commands |-> pl.run_commands,
   contribute_signals |-> [key_docs |-> pl.key_docs],
   architecture |->
     IF tsjs.ran THEN tsjs.architecture
     ELSE IF python.ran THEN python.architecture
     ELSE IF java.ran THEN java.architecture
     ELSE [nodes |-> << >>, edges |-> << >>],
   start_here |-> sh,
   danger_zones |-> dz,
   warnings |-> ReportWarnings(pl, tsjs, python, java)]

\* one whole run of analyzeRepository on a workspace
analyzeRepository(w) ==
  LET pl == runIndexingPipeline(w)
      tsjs == IF HasFiles(pl, TSJS_EXTENSIONS) THEN runTsJsPack(w, pl) ELSE NullPack
      python == IF HasFiles(pl, PYTHON_EXTENSIONS) THEN runPythonPack(w, pl) ELSE NullPack
      java == IF HasFiles(pl, JAVA_EXTENSIONS) THEN runJavaPack(w, pl) ELSE NullPack
  IN ReportOf(pl, tsjs, python, java,
              computeStartHere(pl, tsjs, python), computeDangerZones(pl, tsjs, python))

BuildReport ==
  /\ pc = "dangerZones"
  /\ report' = ReportOf(pipeline, tsjsResult, pythonResult, javaResult,
                        startHere, dangerZones)
  /\ pc' = "saved"
  /\ UNCHANGED << ws, pipeline, tsjsResult, pythonResult, javaResult, startHere, dangerZones >>
  /\ UNCHANGED routeVars

Next ==
  \/ RunIndexingPipeline
  \/ RunTsJsPack
  \/ RunPythonPack
  \/ RunJavaPack
  \/ ComputeStartHere
  \/ ComputeDangerZones
  \/ BuildReport

Spec == Init /\ [][Next]_vars

\* ------------------------------------------- the scoring functions on their own
\* computeStartHere and computeDangerZones read nothing but the pipeline
\* result and the pack results they are handed; their tests hand them
\* results built by hand.  ScoringSpec starts where the packs have returned,
\* with such results, and runs the rest of analyzeRepository.

\* the raw measures of one file
Measures ==
  [size : {120, 240}, fan_in : {0, 2}, fan_out : {0, 2},
   complexity : {0, 4}, test_proximity : {0, 40, 100}]

PipelineOf(files, m) ==
  [NoPipeline EXCEPT
     !.file_metadata = [i \in 1..Len(files) |->
                          [path |-> files[i], size |-> m[i].size,
                           extension |-> Extname(Last(files[i]))]],
     !.folder_map = FolderMap(files)]

PackOver(files, m, imports, entrypoints) ==
  LET at(f) == CHOOSE i \in 1..Len(files) : files[i] = f
      fs == SeqToSet(files)
  IN [NullPack EXCEPT
        !.ran = TRUE, !.files = files, !.imports = imports,
        !.entrypoints = entrypoints,
        !.fanIn = [f \in fs |-> m[at(f)].fan_in],
        !.fanOut = [f \in fs |-> m[at(f)].fan_out],
        !.complexity = [f \in fs |-> m[at(f)].complexity],
        !.testProximity = [f \in fs |-> m[at(f)].test_proximity]]

ScoringInput(eco, files, m, imports, entrypoints) ==
  [tree |-> Tree([i \in 1..Len(files) |-> Code(files[i], TRUE, {})], "none", {}, "none", {}),
   pipeline |-> PipelineOf(files, m),
   tsjs |-> IF eco = "tsjs" THEN PackOver(files, m, imports, entrypoints) ELSE NullPack,
   python |-> IF eco = "python" THEN PackOver(files, m, imports, entrypoints) ELSE NullPack]

\* two files of one ecosystem, every combination of measures
TwoFiles(eco) == IF eco = "tsjs" THEN << TsIndex, TsUtil >> ELSE << PyMain, PyMod >>

TwoFileInputs ==
  {ScoringInput(eco, TwoFiles(eco), << a, b >>, << >>, {}) :
     eco \in {"tsjs", "python"}, a \in Measures, b \in Measures}

\* import graphs over five files: file i imports nothing, the next file, the
\* file after the next, or the next file and the first one; none, one or two
\* of the files are entry points; fan-in and fan-out are those of the graph
GraphFiles(eco) == [i \in 1..5 |-> RingFile(eco, i)]

GraphImports(files, choice) ==
  LET n == Len(files)
      at(f) == CHOOSE i \in 1..n : files[i] = f
      to(i, j) == files[RingNext(i, j, n)]
  IN [f \in SeqToSet(files) |->
        LET i == at(f)
        IN (CASE choice[i] = 1 -> {}
              [] choice[i] = 2 -> {to(i, 1)}
              [] choice[i] = 3 -> {to(i, 2)}
              [] choice[i] = 4 -> {to(i, 1), files[1]}) \ {f}]

GraphMeasures(files, imports) ==
  [i \in 1..Len(files) |->
     [size |-> 120, fan_in |-> Cardinality({g \in DOMAIN imports : files[i] \in imports[g]}),
      fan_out |-> Cardinality(imports[files[i]]), complexity |-> 0, test_proximity |-> 0]]

GraphInput(eco, choice, entries) ==
  LET files == GraphFiles(eco)
      imports == GraphImports(files, choice)
  IN ScoringInput(eco, files, GraphMeasures(files, imports), imports,
                  {files[i] : i \in entries})

GraphInputs ==
  {GraphInput(eco, choice, entries) :
     eco \in {"tsjs", "python"}, choice \in [1..5 -> 1..4],
     entries \in {{}, {1}, {1, 2}}}

\* k files that differ in fan-in only (fan-in 1, 2 or 3), a file that nothing
\* imports and an imported test file
RankingFiles(k) ==
  [i \in 1..k |-> RingFile("tsjs", i)]
  \o << TsGen, << RingFolder(1), F("mod", ".test", ".ts") >> >>

RankingInput(k) ==
  LET files == RankingFiles(k)
      m == [i \in 1..(k + 2) |->
              [size |-> 120, fan_in |-> IF i <= k THEN 1 + (i % 3) ELSE IF i = k + 1 THEN 0 ELSE 1,
               fan_out |-> 0, complexity |-> 0, test_proximity |-> 0]]
  IN ScoringInput("tsjs", files, m, << >>, {})

RankingInputs == {RankingInput(k) : k \in {START_HERE_LIMIT, START_HERE_LIMIT + 1}}

\* an import chain over six files, from the first file to the last or from the
\* last to the first, whose only entry point is the file at the start
ChainFiles(eco) == GraphFiles(eco) \o << RingFile(eco, Len(GraphFiles(eco)) + 1) >>

ChainInput(eco, forward) ==
  LET files == ChainFiles(eco)
      n == Len(files)
      imports == [f \in SeqToSet(files) |->
                    LET i == CHOOSE k \in 1..n : files[k] = f
                    IN IF forward THEN (IF i < n THEN {files[i + 1]} ELSE {})
                       ELSE (IF i > 1 THEN {files[i - 1]} ELSE {})]
  IN ScoringInput(eco, files, GraphMeasures(files, imports), imports,
                  {IF forward THEN files[1] ELSE files[n]})

ChainInputs ==
  {ChainInput(eco, forward) : eco \in {"tsjs", "python"}, forward \in BOOLEAN}

ScoringInputs == TwoFileInputs \cup GraphInputs \cup RankingInputs \cup ChainInputs

ScoringInit ==
  \E inp \in ScoringInputs :
    /\ ws = inp.tree
    /\ pc = "java"
    /\ pipeline = inp.pipeline
    /\ tsjsResult = inp.tsjs
    /\ pythonResult = inp.python
    /\ javaResult = NullPack
    /\ startHere = << >>
    /\ dangerZones = << >>
    /\ report = NoReport
    /\ RouteIdle

ScoringNext ==
  \/ ComputeStartHere
  \/ ComputeDangerZones
  \/ BuildReport

ScoringSpec == ScoringInit /\ [][ScoringNext]_vars

\* ------------------------------------------------------- POST /api/analyze
\* The handler races analyzeRepository against a timer of
\* MAX_ANALYSIS_TIME_MS.  The timer's callback runs only when the event loop
\* is free, that is while analyzeRepository awaits I/O (the clone, the write
\* of the report, the removal of the clone); the walk, the packs and the
\* scoring are synchronous calls joined by awaits of already settled
\* promises, so they run to their end without the timer being served.  A
\* zipRef input is analyzed in place: ingestFromZip does no I/O wait and
\* returns no cleanup.

analysisVars == << ws, pc, pipeline, tsjsResult, pythonResult, javaResult,
                   startHere, dangerZones, report >>

Requests == [githubUrl : {"none", "invalid", "valid"}, zipRef : {"none", "missing", "present"}]

\* how long a step of the analysis can take, in milliseconds
Durations ==
  {1, MAX_ANALYSIS_TIME_MS \div 2, MAX_ANALYSIS_TIME_MS - 1, MAX_ANALYSIS_TIME_MS + 1}

\* workspace.cleanup is defined for a clone only
hasCleanup == request.githubUrl = "valid"

ReportResponse == [status |-> 200, code |-> "", message |-> "", reportId |-> "uuid"]

RouteInit ==
  /\ request \in Requests
  /\ route = "received"
  /\ phase = "none"
  /\ clock = 0
  /\ failure = NoError
  /\ caught = NoError
  /\ response = NoResponse
  /\ clone = NoClone
  /\ workspace = NoWorkspace
  /\ ws = ReadmeOnlyTree
  /\ pc = "ingested"
  /\ pipeline = NoPipeline
  /\ tsjsResult = NullPack
  /\ pythonResult = NullPack
  /\ javaResult = NullPack
  /\ startHere = << >>
  /\ dangerZones = << >>
  /\ report = NoReport

RejectMissingInput ==
  /\ route = "received"
  /\ request.githubUrl = "none" /\ request.zipRef = "none"
  /\ route' = "responded"
  /\ response' = ErrorResponse(400, "INVALID_INPUT", "Provide githubUrl or zipRef")
  /\ UNCHANGED << request, phase, clock, failure, caught, clone, workspace >>
  /\ UNCHANGED analysisVars

RejectInvalidUrl ==
  /\ route = "received"
  /\ request.githubUrl = "invalid"
  /\ route' = "responded"
  /\ response' = ErrorResponse(400, "INVALID_URL", "Invalid GitHub URL")
  /\ UNCHANGED << request, phase, clock, failure, caught, clone, workspace >>
  /\ UNCHANGED analysisVars

\* analyzeRepository is called and runs up to its first I/O wait, then the
\* timer is set.  ingestFromZip returns a workspace without cleanup or throws.
StartAnalysis ==
  /\ route = "received"
  /\ request.githubUrl # "invalid"
  /\ ~(request.githubUrl = "none" /\ request.zipRef = "none")
  /\ route' = "racing"
  /\ clock' = 0
  /\ IF request.githubUrl = "valid"
       THEN phase' = "ingest" /\ failure' = NoError /\ workspace' = workspace
       ELSE IF request.zipRef = "missing"
         THEN /\ phase' = "rejected"
              /\ failure' = AppError("ZIP_NOT_FOUND", 404, "Zip path not found.")
              /\ workspace' = workspace
         ELSE /\ phase' = "analysis" /\ failure' = NoError
              /\ workspace' = [workspace EXCEPT !.returned = TRUE]
  /\ UNCHANGED << request, caught, response, clone >>
  /\ UNCHANGED analysisVars

\* the time a step that waits for I/O takes: before the route has answered
\* the step ends only if the timer has not come due first
Elapses(d) ==
  /\ route \in {"racing", "responded"}
  /\ route = "racing" => clock + d <= MAX_ANALYSIS_TIME_MS
  /\ clock' = clock + d

\* why a git clone fails, by the message classes ingestFromGithub tells apart
CloneFailures == {"maxBuffer", "timeout", "branchNotFound", "notPublic", "other"}

CloneErrorOf(kind) ==
  CASE kind = "maxBuffer" -> AppError("REPO_TOO_LARGE", 413, "Repository exceeds the 100MB limit.")
    [] kind = "timeout" -> AppError("CLONE_TIMEOUT", 504, "Cloning timed out.")
    [] kind = "branchNotFound" ->
         AppError("CLONE_FAILED", 400, "Requested branch was not found in the repository.")
    [] kind = "notPublic" -> AppError("REPO_NOT_PUBLIC", 403, "Repository is private or not found.")
    [] OTHER -> AppError("CLONE_FAILED", 502, "Could not clone the repository.")

\* fs.promises.rm(tempDir) inside try { } catch { /* ignore */ }: the
\* directory is gone, or rm has thrown and it is still there
RemovedOrLeft == {"removed", "left"}

\* ingestFromGithub returns: the two git rev-parse calls are optional
ReturnWorkspace(branch, first, retry, dir) ==
  /\ clone' = [branch |-> branch, first |-> first, retry |-> retry, dir |-> dir]
  /\ workspace' = [workspace EXCEPT !.returned = TRUE]
  /\ phase' = "analysis"
  /\ failure' = failure

\* ingestFromGithub throws after its attempt to remove the directory
ThrowCloneError(branch, first, retry, dir, e) ==
  /\ clone' = [branch |-> branch, first |-> first, retry |-> retry, dir |-> dir]
  /\ workspace' = workspace
  /\ phase' = "rejected"
  /\ failure' = e

\* the retry without --branch.  rm, mkdir and git clone sit in one try block
\* whose catch is empty: the clone succeeds, fails, or is not run because rm
\* or mkdir threw.  What follows depends on existsSync(tempDir/.git) alone: a
\* clone that did not succeed may have left a .git behind ("partial").
RetryClone(branch, first) ==
  \E retry \in {"ok", "failed", "notRun"} :
    IF retry = "ok" THEN ReturnWorkspace(branch, first, retry, "cloned")
    ELSE \/ ReturnWorkspace(branch, first, retry, "partial")
         \/ \E dir \in RemovedOrLeft :
              ThrowCloneError(branch, first, retry, dir, CloneErrorOf("branchNotFound"))

\* ingestFromGithub: waits for git
IngestFromGithub ==
  /\ phase = "ingest"
  /\ \E d \in Durations : Elapses(d)
  /\ \E branch \in BOOLEAN :
       \/ ReturnWorkspace(branch, "ok", "none", "cloned")
       \/ \E kind \in CloneFailures :
            \* "Remote branch <ref> not found" answers --branch only
            /\ kind = "branchNotFound" => branch
            /\ IF branch /\ kind = "branchNotFound"
                 THEN RetryClone(branch, kind)
                 ELSE \E dir \in RemovedOrLeft :
                        ThrowCloneError(branch, kind, "none", dir, CloneErrorOf(kind))
  /\ UNCHANGED << request, route, caught, response >>
  /\ UNCHANGED analysisVars

\* finally { await workspace.cleanup?.() }
EnterFinally(saveReport) ==
  /\ workspace' = [workspace EXCEPT
                     !.saveReport = saveReport,
                     !.cleanups = IF hasCleanup THEN @ + 1 ELSE @]
  /\ phase' = IF hasCleanup THEN "cleanup"
              ELSE IF failure' = NoError THEN "resolved" ELSE "rejected"

\* an exception of the analysis that leaves the function at once
Analyze_ThrowPastFinally ==
  /\ phase = "analysis"
  /\ route \in {"racing", "responded"}
  /\ \E d \in Durations : clock' = clock + d
  /\ \/ phase' = "save" /\ failure' = failure /\ workspace' = workspace
     \/ \E e \in AnalysisErrors :
          /\ failure' = e
          /\ workspace' = [workspace EXCEPT !.saveReport = "skipped"]
          /\ phase' = "rejected"
  /\ UNCHANGED << request, route, caught, response, clone >>
  /\ UNCHANGED analysisVars

\* runIndexingPipeline, the packs, computeStartHere, computeDangerZones:
\* no I/O wait from the first to the last
Analyze ==
  /\ phase = "analysis"
  /\ route \in {"racing", "responded"}
  /\ \E d \in Durations : clock' = clock + d
  /\ \/ phase' = "save" /\ failure' = failure /\ workspace' = workspace
     \/ \E e \in AnalysisErrors :
          /\ failure' = e
          /\ EnterFinally("skipped")
  /\ UNCHANGED << request, route, caught, response, clone >>
  /\ UNCHANGED analysisVars

\* saveReport: waits for fs.promises.writeFile
SaveReport ==
  /\ phase = "save"
  /\ \E d \in Durations : Elapses(d)
  /\ \/ failure' = failure /\ EnterFinally("completed")
     \/ \E e \in SaveErrors : failure' = e /\ EnterFinally("failed")
  /\ UNCHANGED << request, route, caught, response, clone >>
  /\ UNCHANGED analysisVars

\* workspace.cleanup() ends (it catches what rm throws) and
\* analyzeRepository settles
Cleanup ==
  /\ phase = "cleanup"
  /\ \E d \in Durations : Elapses(d)
  /\ phase' = IF failure = NoError THEN "resolved" ELSE "rejected"
  /\ \E dir \in RemovedOrLeft : clone' = [clone EXCEPT !.dir = dir]
  /\ UNCHANGED << request, route, failure, caught, response, workspace >>
  /\ UNCHANGED analysisVars

\* the timer's callback rejects the race while analyzeRepository waits for
\* I/O, at MAX_ANALYSIS_TIME_MS or as soon after it as the event loop is
\* free; analyzeRepository is not cancelled and goes on
FireTimer ==
  /\ route = "racing" /\ phase \in {"ingest", "save", "cleanup"}
  /\ clock' = Max2(clock, MAX_ANALYSIS_TIME_MS)
  /\ caught' = AppError("TIMEOUT", 504, "Analysis timed out.")
  /\ response' = toApiErrorPayload(caught')
  /\ route' = "responded"
  /\ UNCHANGED << request, phase, failure, clone, workspace >>
  /\ UNCHANGED analysisVars

\* (report.reportId is a randomUUID(): the "No report produced" branch is
\* never taken)
RespondReport ==
  /\ route = "racing" /\ phase = "resolved"
  /\ response' = ReportResponse
  /\ route' = "responded"
  /\ UNCHANGED << request, phase, clock, failure, caught, clone, workspace >>
  /\ UNCHANGED analysisVars

RespondError ==
  /\ route = "racing" /\ phase = "rejected"
  /\ caught' = failure
  /\ response' = toApiErrorPayload(failure)
  /\ route' = "responded"
  /\ UNCHANGED << request, phase, clock, failure, clone, workspace >>
  /\ UNCHANGED analysisVars

RouteNext ==
  \/ RejectMissingInput
  \/ RejectInvalidUrl
  \/ StartAnalysis
  \/ IngestFromGithub
  \/ Analyze
  \/ SaveReport
  \/ Cleanup
  \/ FireTimer
  \/ RespondReport
  \/ RespondError

RouteSpec == RouteInit /\ [][RouteNext]_vars

\* the event loop runs every continuation that is ready, and git, writeFile
\* and rm end (git clone under its 60 s timeout)
RouteLiveSpec == RouteSpec /\ WF_vars(RouteNext)

TypeOK == pc \in {"ingested", "indexed", "tsjs", "python", "java", "startHere",
                  "dangerZones", "saved"}

\* ------------------------------------------------------------- properties
Ecosystems == {"tsjs", "python", "java"}

PackOf(eco) ==
  IF eco = "tsjs" THEN tsjsResult ELSE IF eco = "python" THEN pythonResult ELSE javaResult

PackFileSet(eco) == SeqToSet(PackOf(eco).files)

FileEdgesOf(eco) ==
  UNION {{<<a, b>> : b \in PackOf(eco).imports[a]} : a \in DOMAIN PackOf(eco).imports}

GroupOf(eco, f) == IF eco = "java" THEN toPackagePath(f) ELSE toFolderPath(f)

HasWarning(warnings, msg) == \E i \in 1..Len(warnings) : warnings[i].msg = msg

C2_NoSelfImport ==
  \A eco \in Ecosystems :
    \A f \in DOMAIN PackOf(eco).imports : f \notin PackOf(eco).imports[f]

\* C3: every target of an import edge, and every file given a fan-in, is a
\* file of the pack's own file set.
C3_TargetsInPackFileSet ==
  \A eco \in Ecosystems :
    /\ \A e \in FileEdgesOf(eco) : e[2] \in PackFileSet(eco)
    /\ \A x \in DOMAIN PackOf(eco).fanIn :
         PackOf(eco).fanIn[x] > 0 => x \in PackFileSet(eco)

\* C4: every Start Here score and every Danger Zone score is an integer
\* between 0 and 100.
C4_ScoresInRange ==
  /\ \A i \in 1..Len(startHere) : startHere[i].score \in 0..100
  /\ \A i \in 1..Len(dangerZones) : dangerZones[i].score \in 0..100

\* both lists are there, with scores that differ
C4_Witness ==
  /\ pc = "saved"
  /\ \E i, j \in 1..Len(startHere) : startHere[i].score = 100 /\ startHere[j].score \in 1..99
  /\ \E i, j \in 1..Len(dangerZones) : dangerZones[i].score > dangerZones[j].score

\* the raw scores of the returned items, in list order
StartHereRaw ==
  LET cand == StartHereCandidates(pipeline, tsjsResult, pythonResult)
  IN [i \in 1..Len(startHere) |-> cand[startHere[i].path].rawScore] @@ << >>

\* C5: in the Start Here list a higher raw score never gets a lower final
\* score, and the items of maximal raw score get exactly 100.
C5_NormalizationKeepsRanking ==
  pc \in {"startHere", "dangerZones", "saved"} =>
    LET raw == StartHereRaw IN
    \A i \in 1..Len(startHere) :
      /\ \A j \in 1..Len(startHere) :
           raw[i] > raw[j] => startHere[i].score >= startHere[j].score
      /\ (\A j \in 1..Len(startHere) : raw[i] >= raw[j]) => startHere[i].score = 100

\* a list with three different raw scores, and so three different scores
C5_Witness ==
  /\ pc = "startHere"
  /\ LET raw == StartHereRaw IN
     \E i, j, k \in 1..Len(startHere) :
       /\ raw[i] > raw[j] /\ raw[j] > raw[k]
       /\ startHere[i].score = 100 /\ startHere[j].score \in 1..99 /\ startHere[k].score = 0

PackGroups(eco) == {GroupOf(eco, f) : f \in PackFileSet(eco)}

NodeIds(eco) ==
  {PackOf(eco).architecture.nodes[i].id : i \in 1..Len(PackOf(eco).architecture.nodes)}

\* the distinct (from group, to group) links of a pack's file-level graph
TrueLinks(eco) == {<<GroupOf(eco, e[1]), GroupOf(eco, e[2])>> : e \in FileEdgesOf(eco)}

\* those of them that join two nodes of the reduced architecture
LinksAmongNodes(eco) ==
  {k \in TrueLinks(eco) : k[1] \in NodeIds(eco) /\ k[2] \in NodeIds(eco)}

\* C6: a reduced architecture has at most 50 nodes, the "nodes capped at 50"
\* warning is there exactly when the pack's files lie in more than 50
\* distinct folders (packages), and 55 folders give exactly 50 nodes and the
\* warning.
C6_NodeCap ==
  \A eco \in Ecosystems :
    LET r == PackOf(eco)
        total == Cardinality(PackGroups(eco))
        warned == HasWarning(r.warnings, "Architecture nodes capped at")
    IN r.ran =>
         /\ Len(r.architecture.nodes) <= 50
         /\ warned <=> total > 50
         /\ total = 55 => Len(r.architecture.nodes) = 50 /\ warned

\* a pack has reduced a tree of 55 folders
C6_Witness ==
  \E eco \in Ecosystems :
    /\ PackOf(eco).ran
    /\ Cardinality(PackGroups(eco)) = 55
    /\ Len(PackOf(eco).architecture.nodes) = 50
    /\ HasWarning(PackOf(eco).warnings, "Architecture nodes capped at")

\* C7 as stated: at most 200 edges, and the "edges capped at 200" warning
\* exactly when the file-level graph has more than 200 distinct
\* folder-to-folder links.
C7_EdgeCapOnTrueLinks ==
  \A eco \in Ecosystems :
    LET r == PackOf(eco) IN
    r.ran =>
      /\ Len(r.architecture.edges) <= 200
      /\ HasWarning(r.warnings, "Architecture edges capped at")
           <=> Cardinality(TrueLinks(eco)) > 200

\* C7 amended: at most 200 edges, and the "edges capped at 200" warning
\* exactly when more than 200 distinct links join two folders that are both
\* among the nodes of the reduced architecture.
C7_EdgeCapOnLinksAmongNodes ==
  \A eco \in Ecosystems :
    LET r == PackOf(eco) IN
    r.ran =>
      /\ Len(r.architecture.edges) <= 200
      /\ HasWarning(r.warnings, "Architecture edges capped at")
           <=> Cardinality(LinksAmongNodes(eco)) > 200

\* the node cap has removed links: more than 200 links in the graph, no
\* more than 200 of them among the nodes, and no edge warning
C7_Witness ==
  \E eco \in Ecosystems :
    /\ PackOf(eco).ran
    /\ Cardinality(TrueLinks(eco)) > 200
    /\ Cardinality(LinksAmongNodes(eco)) <= 200
    /\ Len(PackOf(eco).architecture.edges) = Cardinality(LinksAmongNodes(eco))
    /\ ~HasWarning(PackOf(eco).warnings, "Architecture edges capped at")

\* C8: no edge of a reduced architecture joins a folder (package) to itself.
C8_NoArchitectureSelfLoop ==
  \A eco \in Ecosystems :
    \A i \in 1..Len(PackOf(eco).architecture.edges) :
      PackOf(eco).architecture.edges[i].from # PackOf(eco).architecture.edges[i].to

\* C9: after a pack returns, every file of its file set has a test
\* proximity, and it is 0, 80, 90 or 100.
C9_ProximityForEveryFile ==
  \A eco \in Ecosystems :
    PackOf(eco).ran =>
      \A f \in PackFileSet(eco) :
        /\ f \in DOMAIN PackOf(eco).testProximity
        /\ PackOf(eco).testProximity[f] \in {0, 80, 90, 100}

Reverse(seq) == [i \in 1..Len(seq) |-> seq[Len(seq) + 1 - i]]

ProximityOf(eco, f, testFiles) ==
  IF eco = "tsjs" THEN TsJs_computeTestProximityScore(f, testFiles)
  ELSE IF eco = "python" THEN Python_computeTestProximityScore(f, testFiles)
  ELSE Java_computeTestProximityScore(f, testFiles)

\* C10: a file's test proximity does not depend on the order in which the
\* test files are enumerated, and a test file, or a file with a test file
\* in its own directory, gets 100.
C10_HighestTierWins ==
  \A eco \in Ecosystems :
    LET r == PackOf(eco)
        tests == SeqToSet(r.testFiles)
    IN \A f \in DOMAIN r.testProximity :
         /\ r.testProximity[f] = ProximityOf(eco, f, Reverse(r.testFiles))
         /\ (f \in tests \/ \E t \in tests : Dirname(t) = Dirname(f))
              => r.testProximity[f] = 100

\* the same tree with every unreadable file readable and empty
AsIfEmpty(w) ==
  [w EXCEPT !.content =
     [p \in DOMAIN w.content |->
        IF w.content[p].readable THEN w.content[p]
        ELSE [w.content[p] EXCEPT !.readable = TRUE, !.specs = {}, !.pkg = << >>,
                                  !.entry = "none", !.loc = 0, !.branchCount = 0,
                                  !.maxNesting = 0]]]

RunPack(eco, w, pl) ==
  IF eco = "tsjs" THEN runTsJsPack(w, pl)
  ELSE IF eco = "python" THEN runPythonPack(w, pl) ELSE runJavaPack(w, pl)

\* C11: an unreadable file of a pack's file set has an empty import set,
\* fan-out 0, complexity 0 and its path's test proximity recorded for it, and
\* every other file has the signals it would have were that file readable
\* and empty.
C11_UnreadableFileDegradesToZero ==
  \A eco \in Ecosystems :
    LET r == PackOf(eco)
        unread == {f \in PackFileSet(eco) : ~ws.content[f].readable}
    IN (r.ran /\ unread # {}) =>
         LET e == RunPack(eco, AsIfEmpty(ws), pipeline) IN
         /\ \A f \in unread :
              /\ f \in DOMAIN r.imports /\ r.imports[f] = {}
              /\ f \in DOMAIN r.fanOut /\ r.fanOut[f] = 0
              /\ f \in DOMAIN r.complexity /\ r.complexity[f] = 0
              /\ f \in DOMAIN r.testProximity
              /\ r.testProximity[f] = ProximityOf(eco, f, r.testFiles)
         /\ \A g \in PackFileSet(eco) \ unread :
              /\ Get(r.imports, g, {}) = Get(e.imports, g, {})
              /\ Get(r.fanIn, g, 0) = Get(e.fanIn, g, 0)
              /\ Get(r.fanOut, g, 0) = Get(e.fanOut, g, 0)
              /\ Get(r.complexity, g, 0) = Get(e.complexity, g, 0)
              /\ Get(r.testProximity, g, 0) = Get(e.testProximity, g, 0)

\* a directory walk of the same tree that meets the entries of every
\* directory in the opposite order
Reenumerated(w) == [w EXCEPT !.order = Reverse(w.order)]

\* C12: a second run on the unchanged tree gives the same report (items,
\* order, scores, warnings), also when the file system enumerates the
\* directory entries in another order.
C12_SameTreeSameReport ==
  pc = "saved" =>
    /\ analyzeRepository(ws) = report
    /\ analyzeRepository(Reenumerated(ws)) = report

\* the extensions of the files the indexer records metadata for
IndexedExtensions ==
  LET walked == Walked(ws)
  IN {Extname(Last(walked[i])) : i \in 1..Min2(Len(walked), MAX_FILE_COUNT)}

EcosystemExtensions(eco) ==
  IF eco = "tsjs" THEN TSJS_EXTENSIONS
  ELSE IF eco = "python" THEN PYTHON_EXTENSIONS ELSE JAVA_EXTENSIONS

UnavailableWarning(eco) ==
  IF eco = "tsjs" THEN "Deep TS/JS analysis unavailable"
  ELSE IF eco = "python" THEN "Deep Python analysis unavailable"
  ELSE "Deep Java analysis unavailable"

NoSupportedFiles == \A eco \in Ecosystems : IndexedExtensions \cap EcosystemExtensions(eco) = {}

\* C13: a saved report of a tree without any TS/JS, Python or Java file has
\* the indexer's folder map, key documents and run commands, an empty Danger
\* Zones list, an empty architecture and the warning "Deep analysis
\* unavailable"; and no report carries the "analysis unavailable" warning of
\* an ecosystem that has files in the tree
C13_FallbackReport ==
  pc = "saved" =>
    /\ NoSupportedFiles =>
          /\ report.folder_map = SeqToSet(Walked(ws))
          /\ report.contribute_signals.key_docs = SelectSeq(Walked(ws), isKeyDoc)
          /\ report.run_commands = extractRunCommands(ws)
          /\ report.danger_zones = << >>
          /\ report.architecture = [nodes |-> << >>, edges |-> << >>]
          /\ HasWarning(report.warnings,
                        "Deep analysis unavailable: no supported source files detected.")
    /\ \A eco \in Ecosystems :
          IndexedExtensions \cap EcosystemExtensions(eco) # {} =>
            /\ ~HasWarning(report.warnings, UnavailableWarning(eco))
            /\ ~HasWarning(report.warnings,
                           "Deep analysis unavailable: no supported source files detected.")

\* a saved report of a tree of documents and a package.json with scripts
C13_Witness ==
  /\ pc = "saved"
  /\ NoSupportedFiles
  /\ report.run_commands # << >>
  /\ report.contribute_signals.key_docs # << >>
  /\ report.folder_map # {}

NoPackResults == ~tsjsResult.ran /\ ~pythonResult.ran /\ ~javaResult.ran

RootReadmeItems ==
  {i \in 1..Len(startHere) :
     /\ startHere[i].path = Readme
     /\ \E j \in 1..Len(startHere[i].explanation) :
          startHere[i].explanation[j].text = "root README documentation"}

\* C14: once Start Here is computed without any language-pack result, a root
\* README.md that is among the key documents has an item whose explanation
\* contains "root README", however many other key documents there are; and
\* when the root README.md is the only file of the tree, that item is the
\* whole list
C14_RootReadmeListed ==
  (pc \in {"startHere", "dangerZones", "saved"} /\ NoPackResults
     /\ Readme \in SeqToSet(pipeline.key_docs)) =>
    /\ RootReadmeItems # {}
    /\ (SeqToSet(ws.order) = {Readme} => Len(startHere) = 1)

\* the files computeDangerZones scores, with the raw measures it is handed
DangerZoneFiles ==
  (IF tsjsResult.ran
     THEN {f \in SeqToSet(FmKeys(pipeline)) : Extname(Last(f)) \in CODE_EXTENSIONS} ELSE {})
  \cup (IF pythonResult.ran
          THEN {f \in SeqToSet(FmKeys(pipeline)) : Extname(Last(f)) = PY_EXTENSION} ELSE {})

RawMeasures(f) ==
  LET pack == IF Extname(Last(f)) = PY_EXTENSION THEN pythonResult ELSE tsjsResult
  IN [size |-> FmSize(pipeline, f),
      fan_in |-> Get(pack.fanIn, f, 0),
      fan_out |-> Get(pack.fanOut, f, 0),
      complexity |-> Get(pack.complexity, f, 0),
      test_proximity |-> Get(pack.testProximity, f, 0)]

\* a is the larger, more imported, more complex file without tests and b the
\* smaller one with a test nearby
Riskier(a, b) ==
  /\ RawMeasures(a).size > RawMeasures(b).size
  /\ RawMeasures(a).fan_in > RawMeasures(b).fan_in
  /\ RawMeasures(a).complexity > RawMeasures(b).complexity
  /\ RawMeasures(a).test_proximity = 0
  /\ RawMeasures(b).test_proximity > 0

\* C15: when computeDangerZones has scored exactly two files of one
\* ecosystem, of which one has the larger size, fan-in and complexity and test
\* proximity 0 and the other a positive test proximity, the first is listed
\* first with a strictly higher score and the note "no nearby tests", and
\* both items carry the raw size, fan_in, fan_out, complexity and
\* test_proximity they were scored from
C15_RiskierFileFirst ==
  pc \in {"dangerZones", "saved"} =>
    \A a \in DangerZoneFiles : \A b \in DangerZoneFiles :
      (DangerZoneFiles = {a, b} /\ Extname(Last(a)) = Extname(Last(b)) /\ Riskier(a, b)) =>
        /\ Len(dangerZones) = 2
        /\ dangerZones[1].path = a
        /\ dangerZones[2].path = b
        /\ dangerZones[1].score > dangerZones[2].score
        /\ dangerZones[1].note = "no nearby tests"
        /\ dangerZones[1].metrics = RawMeasures(a)
        /\ dangerZones[2].metrics = RawMeasures(b)

\* the riskier file is the second of the two in the file metadata and has the
\* smaller fan-out
C15_Witness ==
  /\ pc = "dangerZones"
  /\ Len(dangerZones) = 2
  /\ DangerZoneFiles = {dangerZones[1].path, dangerZones[2].path}
  /\ Riskier(dangerZones[1].path, dangerZones[2].path)
  /\ FmKeys(pipeline)[2] = dangerZones[1].path
  /\ dangerZones[1].metrics.fan_out < dangerZones[2].metrics.fan_out

\* the files of the tree outside the skipped directories and within the
\* depth limit, in the order of the walk
CountableFiles ==
  SelectSeq(ws.order,
            LAMBDA p : /\ \A i \in 1..Len(p) : p[i] \notin {D(".git"), D("node_modules")}
                       /\ Len(p) <= MAX_DEPTH)

\* C16: the indexing result has at most 10,000 file-metadata entries; a
\* countable file met after the cap was reached is in the folder map and has
\* no metadata; and a tree with more countable files than the cap has the
\* warning "Max file count reached"
C16_FileCountCap ==
  pc # "ingested" =>
    LET countable == CountableFiles
        late == {countable[i] : i \in (MAX_FILE_COUNT + 1)..Len(countable)}
        recorded == {pipeline.file_metadata[j].path : j \in 1..Len(pipeline.file_metadata)}
    IN /\ Len(pipeline.file_metadata) <= MAX_FILE_COUNT
       /\ late \subseteq pipeline.folder_map
       /\ late \cap recorded = {}
       /\ Len(countable) > MAX_FILE_COUNT =>
             HasWarning(pipeline.warnings, "Max file count reached; some files omitted")

\* the indexing result of a tree with one countable file more than the cap
C16_Witness ==
  /\ pc = "indexed"
  /\ Len(CountableFiles) = MAX_FILE_COUNT + 1
  /\ Len(ws.order) > Len(CountableFiles)
  /\ Len(pipeline.file_metadata) = MAX_FILE_COUNT
  /\ HasWarning(pipeline.warnings, "Max file count reached; some files omitted")

\* C17: the payload of a caught value has the curated message of its code;
\* a caught AppError keeps its status and its code; any other caught value
\* gives status 500, code ANALYSIS_FAILED and the fixed message, so that the
\* payloads of two values that are no AppError are equal whatever their text
C17_CuratedErrorPayload ==
  /\ (route = "responded" /\ caught # NoError) =>
        /\ response.message = USER_MESSAGES[response.code]
        /\ caught.kind = "AppError" =>
              (response.status = caught.status /\ response.code = caught.code)
        /\ caught.kind # "AppError" =>
              response = ErrorResponse(500, "ANALYSIS_FAILED",
                                       "Analysis failed. Check server logs.")
  /\ \A a \in AnalysisErrors \cup SaveErrors : \A b \in AnalysisErrors \cup SaveErrors :
        toApiErrorPayload(a) = toApiErrorPayload(b)

\* a response to a caught Error that is no AppError
C17_Witness ==
  /\ route = "responded"
  /\ caught.kind = "Error"
  /\ response.code = "ANALYSIS_FAILED"

\* analyzeRepository has settled, and no later than the time limit
CompletedInTime == phase \in {"resolved", "rejected"} /\ clock <= MAX_ANALYSIS_TIME_MS

\* C18: a response to a request whose analysis was started is 504 TIMEOUT
\* whenever analyzeRepository did not complete within 120 seconds of its
\* start, and carries a report id only when it did
C18_TimeoutAnswer ==
  (route = "responded" /\ phase # "none") =>
    /\ ~CompletedInTime => (response.status = 504 /\ response.code = "TIMEOUT")
    /\ response.reportId # "" => CompletedInTime

\* C19: the Start Here list has at most 12 items; a candidate whose raw score
\* is not positive or that has no reason is not in it; its items are in the
\* order of raw score descending, equal raw scores in the order of path
\* ascending; and no candidate left out of it that has a positive raw score
\* and a reason has a higher raw score than one of its items
C19_TopTwelveByRawScore ==
  pc = "startHere" =>
    LET cand == StartHereCandidates(pipeline, tsjsResult, pythonResult)
        n == Len(startHere)
        listed == {startHere[i].path : i \in 1..n}
    IN /\ n <= 12
       /\ listed \subseteq DOMAIN cand
       /\ \A f \in listed : cand[f].rawScore > 0 /\ cand[f].reasons # << >>
       /\ \A i \in 1..n : \A j \in (i + 1)..n :
            \/ cand[startHere[i].path].rawScore > cand[startHere[j].path].rawScore
            \/ /\ cand[startHere[i].path].rawScore = cand[startHere[j].path].rawScore
               /\ LocaleLess(startHere[i].path, startHere[j].path)
       /\ \A f \in DOMAIN cand \ listed :
            (cand[f].rawScore > 0 /\ cand[f].reasons # << >>) =>
              \A g \in listed : cand[f].rawScore <= cand[g].rawScore

\* twelve items, two of them with equal raw scores, a candidate with a
\* positive raw score left out and a candidate without a positive raw score
C19_Witness ==
  /\ pc = "startHere"
  /\ Len(startHere) = 12
  /\ LET cand == StartHereCandidates(pipeline, tsjsResult, pythonResult)
         listed == {startHere[i].path : i \in 1..Len(startHere)}
     IN /\ \E f \in DOMAIN cand \ listed : cand[f].rawScore > 0
        /\ \E f \in DOMAIN cand : cand[f].rawScore <= 0
        /\ \E f \in listed : \E g \in listed :
             f # g /\ cand[f].rawScore = cand[g].rawScore

\* the files within k import hops of the entry points
RECURSIVE Within(_, _, _)
Within(entrypoints, imports, k) ==
  IF k = 0 THEN entrypoints
  ELSE LET w == Within(entrypoints, imports, k - 1)
       IN w \cup UNION {Get(imports, f, {}) : f \in w}

\* C20: for the entry points and the import graph of each pack result that
\* computeStartHere passes to computeEntrypointDistance, the files with a
\* distance are the files reachable from an entry point along imports, the
\* distance of each is the least number of hops in which an entry point
\* reaches it (0 for an entry point), and the computation ends on graphs with
\* cycles
C20_MinimumHopDistance ==
  pc = "startHere" =>
    \A eco \in {"tsjs", "python"} :
      LET entrypoints == PackOf(eco).entrypoints
          imports == PackOf(eco).imports
          distance == computeEntrypointDistance(entrypoints, imports)
          n == Cardinality(DOMAIN imports \cup entrypoints)
      IN /\ DOMAIN distance = Within(entrypoints, imports, n)
         /\ \A f \in DOMAIN distance :
              /\ f \in Within(entrypoints, imports, distance[f])
              /\ distance[f] > 0 => f \notin Within(entrypoints, imports, distance[f] - 1)

\* two entry points; a file two hops away that imports an entry point back
\* (a cycle), is imported by a file one hop away and by a file farther away;
\* and a file that is not reached
C20_Witness ==
  /\ pc = "startHere"
  /\ Cardinality(tsjsResult.entrypoints) = 2
  /\ LET distance == computeEntrypointDistance(tsjsResult.entrypoints, tsjsResult.imports)
     IN /\ \E f \in DOMAIN distance :
             /\ distance[f] = 2
             /\ tsjsResult.imports[f] \cap tsjsResult.entrypoints # {}
        /\ SeqToSet(tsjsResult.files) \ DOMAIN distance # {}

\* the code files of a pack that ran, their structural bonus and test penalty
ScoredCode(eco) ==
  IF ~PackOf(eco).ran THEN {}
  ELSE {f \in SeqToSet(FmKeys(pipeline)) :
          IF eco = "tsjs" THEN Extname(Last(f)) \in CODE_EXTENSIONS
          ELSE Extname(Last(f)) = PY_EXTENSION}

StructuralOf(eco, f) ==
  IF eco = "tsjs" THEN TsJs_structural(f).rawScore ELSE Python_structural(f).rawScore

TestPenaltyOf(eco, f) ==
  IF eco = "tsjs" THEN TsJs_testPenalty(f) ELSE Python_testPenalty(f)

\* 90, 35, 10 and 6 for distances 0, 1, 2 and 3, nothing otherwise
EntrypointBonus(distance, f) ==
  IF f \notin DOMAIN distance THEN 0
  ELSE CASE distance[f] = 0 -> 90
         [] distance[f] = 1 -> 35
         [] distance[f] = 2 -> 10
         [] distance[f] = 3 -> 6
         [] OTHER -> 0

\* the raw score of every code file that is not a key document is its
\* structural bonus plus min(35, 3 * fanIn) plus the entry-point bonus minus
\* the test penalty
BonusTable ==
  \A eco \in {"tsjs", "python"} :
    LET cand == StartHereCandidates(pipeline, tsjsResult, pythonResult)
        distance == computeEntrypointDistance(PackOf(eco).entrypoints, PackOf(eco).imports)
    IN \A f \in ScoredCode(eco) \ SeqToSet(pipeline.key_docs) :
         cand[f].rawScore =
           StructuralOf(eco, f) + Min2(35, 3 * Get(PackOf(eco).fanIn, f, 0))
           + EntrypointBonus(distance, f) - TestPenaltyOf(eco, f)

\* f and g are non-test files of one pack with equal fan-in and no structural
\* bonus, and f is fewer import hops from an entry point than g
Nearer(eco, f, g) ==
  LET distance == computeEntrypointDistance(PackOf(eco).entrypoints, PackOf(eco).imports)
  IN /\ f \in ScoredCode(eco) /\ g \in ScoredCode(eco)
     /\ {f, g} \cap SeqToSet(pipeline.key_docs) = {}
     /\ StructuralOf(eco, f) = 0 /\ StructuralOf(eco, g) = 0
     /\ TestPenaltyOf(eco, f) = 0 /\ TestPenaltyOf(eco, g) = 0
     /\ Get(PackOf(eco).fanIn, f, 0) = Get(PackOf(eco).fanIn, g, 0)
     /\ f \in DOMAIN distance
     /\ g \in DOMAIN distance => distance[f] < distance[g]

DistanceOf(eco, f) ==
  computeEntrypointDistance(PackOf(eco).entrypoints, PackOf(eco).imports)[f]

\* f is listed before g, or f is listed and g is not
RanksAbove(f, g) ==
  \E i \in 1..Len(startHere) :
    /\ startHere[i].path = f
    /\ \A j \in 1..i : startHere[j].path # g

Listed(f) == \E i \in 1..Len(startHere) : startHere[i].path = f

\* C21 as stated: the entry-point bonus is 90, 35, 10 and 6 for distances 0 to
\* 3 and nothing beyond, on top of min(35, 3 * fanIn), and of two non-test
\* files with equal fan-in and no structural bonus the one nearer to an entry
\* point is never ranked at or below the other
C21_NearerRanksHigher ==
  pc = "startHere" =>
    /\ BonusTable
    /\ \A eco \in {"tsjs", "python"} : \A f \in ScoredCode(eco) : \A g \in ScoredCode(eco) :
         (Nearer(eco, f, g) /\ Listed(g)) => RanksAbove(f, g)

\* C21 amended: the same bonuses, and of two such files the nearer one ranks
\* strictly higher when it is at most three hops from an entry point; files
\* four or more hops away get no bonus and tie with each other
C21_NearerWithinThreeHopsRanksHigher ==
  pc = "startHere" =>
    /\ BonusTable
    /\ LET cand == StartHereCandidates(pipeline, tsjsResult, pythonResult)
       IN \A eco \in {"tsjs", "python"} : \A f \in ScoredCode(eco) : \A g \in ScoredCode(eco) :
            Nearer(eco, f, g) =>
              IF DistanceOf(eco, f) <= 3
                THEN /\ cand[f].rawScore > cand[g].rawScore
                     /\ Listed(g) => RanksAbove(f, g)
                ELSE cand[f].rawScore = cand[g].rawScore

\* a chain a -> b -> c with entry point a in which b and c have equal fan-in
\* and b is listed before c, and two files four and five hops away
C21_Witness ==
  /\ pc = "startHere"
  /\ \E f \in ScoredCode("tsjs") : \E g \in ScoredCode("tsjs") :
       /\ Nearer("tsjs", f, g)
       /\ DistanceOf("tsjs", f) = 1
       /\ g \in tsjsResult.imports[f]
       /\ Listed(f) /\ Listed(g) /\ RanksAbove(f, g)
  /\ \E f \in ScoredCode("tsjs") : \E g \in ScoredCode("tsjs") :
       /\ Nearer("tsjs", f, g)
       /\ DistanceOf("tsjs", f) = 4
       /\ Listed(f) /\ Listed(g)

\* C22: a key document gets 95 and the root README label only when it is a
\* README at the repository root, 80 when it is any other README-named
\* document, 75 when it is a contribution guide and 45 otherwise, and 5 more
\* when it lies under a docs directory
C22_RootReadmeBonus ==
  pc = "startHere" =>
    LET cand == StartHereCandidates(pipeline, tsjsResult, pythonResult)
        code == ScoredCode("tsjs") \cup ScoredCode("python")
    IN \A doc \in SeqToSet(pipeline.key_docs) \ code :
         LET name == Last(doc)
             readme == name.stem \in README_STEMS
             root == readme /\ name.ext \in {".md", ""} /\ Len(doc) = 1
             underDocs == \E i \in 1..(Len(doc) - 1) : doc[i] = D("docs")
             base == IF root THEN 95
                     ELSE IF readme THEN 80
                     ELSE IF name.stem = "CONTRIBUTING" THEN 75 ELSE 45
         IN /\ cand[doc].rawScore = base + (IF underDocs THEN 5 ELSE 0)
            /\ Reason("root README documentation", 0) \in SeqToSet(cand[doc].reasons) <=> root

\* 2 * below + equal of a raw value among the raw values of the scored files
HalfRankAmong(value, values) ==
  2 * Cardinality({i \in DOMAIN values : values[i] < value})
    + Cardinality({i \in DOMAIN values : values[i] = value})

\* C23: every Danger Zone score is round(0.20 sizeP + 0.25 fanInP
\* + 0.20 fanOutP + 0.25 complexityP + 0.10 weakTestP) clamped to 0..100,
\* with P = 100 (below + 0.5 equal) / count over the scored population and
\* weakTestP = 100 - P(testProximity); the sum is taken over the common
\* denominator 40 * count
C23_WeightedPercentileScore ==
  pc = "dangerZones" =>
    LET n == Len(dangerZones)
        sizes == [i \in 1..n |-> dangerZones[i].metrics.size]
        fanIns == [i \in 1..n |-> dangerZones[i].metrics.fan_in]
        fanOuts == [i \in 1..n |-> dangerZones[i].metrics.fan_out]
        complexities == [i \in 1..n |-> dangerZones[i].metrics.complexity]
        proximities == [i \in 1..n |-> dangerZones[i].metrics.test_proximity]
    IN \A i \in 1..n :
         LET m == dangerZones[i].metrics
             sum == 100 * (4 * HalfRankAmong(m.size, sizes)
                           + 5 * HalfRankAmong(m.fan_in, fanIns)
                           + 4 * HalfRankAmong(m.fan_out, fanOuts)
                           + 5 * HalfRankAmong(m.complexity, complexities)
                           + 2 * (2 * n - HalfRankAmong(m.test_proximity, proximities)))
         IN dangerZones[i].score = Max2(0, Min2(100, RoundDiv(sum, 40 * n)))

\* C24: the Danger Zone list holds exactly the files the packs that ran
\* analysed, each once, in non-increasing score order
C24_ScoredPopulationIsPackFiles ==
  pc = "dangerZones" =>
    LET n == Len(dangerZones)
        analysed == UNION {PackFileSet(eco) : eco \in {e \in Ecosystems : PackOf(e).ran}}
    IN /\ {dangerZones[i].path : i \in 1..n} = analysed
       /\ \A i \in 1..n : \A j \in 1..n : dangerZones[i].path = dangerZones[j].path => i = j
       /\ \A i \in 1..(n - 1) : dangerZones[i].score >= dangerZones[i + 1].score

\* the inter-group degree of a group: the file-level edges that join it to
\* another group, incoming and outgoing
InterGroupDegree(eco, g) ==
  Cardinality({e \in FileEdgesOf(eco) :
                 /\ GroupOf(eco, e[1]) # GroupOf(eco, e[2])
                 /\ g \in {GroupOf(eco, e[1]), GroupOf(eco, e[2])}})

MemberCount(eco, g) == Cardinality({f \in PackFileSet(eco) : GroupOf(eco, f) = g})

\* h comes before g: inter-group degree descending, then member-file count
\* descending, then name ascending
InterGroupBefore(eco, h, g) ==
  \/ InterGroupDegree(eco, h) > InterGroupDegree(eco, g)
  \/ /\ InterGroupDegree(eco, h) = InterGroupDegree(eco, g)
     /\ \/ MemberCount(eco, h) > MemberCount(eco, g)
        \/ MemberCount(eco, h) = MemberCount(eco, g) /\ LocaleLess(h, g)

\* C25: the nodes of a reduced architecture are the first 50 groups in the
\* order inter-group degree descending, member-file count descending, name
\* ascending: no dropped group precedes a kept one, and every kept edge joins
\* two kept nodes
C25_KeptNodesLeadTheOrder ==
  \A eco \in Ecosystems :
    LET r == PackOf(eco)
        kept == NodeIds(eco)
    IN r.ran =>
         /\ kept \subseteq PackGroups(eco)
         /\ Len(r.architecture.nodes) = Min2(50, Cardinality(PackGroups(eco)))
         /\ \A h \in PackGroups(eco) \ kept : \A g \in kept : ~InterGroupBefore(eco, h, g)
         /\ \A i \in 1..Len(r.architecture.edges) :
              /\ r.architecture.edges[i].from \in kept
              /\ r.architecture.edges[i].to \in kept

\* C26: in every pack the composite complexity of a readable file is
\* 3 * branchCount + 2 * maxNesting + floor(loc / 40) of the signals of its
\* text
C26_CompositeComplexity ==
  \A eco \in Ecosystems :
    PackOf(eco).ran =>
      \A f \in PackFileSet(eco) :
        (f \in DOMAIN ws.content /\ ws.content[f].readable) =>
          LET c == ws.content[f]
          IN /\ Get(PackOf(eco).loc, f, 0) = c.loc
             /\ Get(PackOf(eco).maxNesting, f, 0) = c.maxNesting
             /\ Get(PackOf(eco).complexity, f, 0)
                  = 3 * c.branchCount + 2 * c.maxNesting + c.loc \div 40

\* the candidates of a relative specifier in the stated order: the literal
\* path, the path with .ts, .tsx, .js, .jsx appended, and index.ts, index.tsx,
\* index.js, index.jsx inside it (a name that already ends in an extension
\* of its own and gets a second one is on no generated disk: NoPath)
StatedCandidates(fromFile, imp) ==
  LET fromDir == Dirname(fromFile)
      base == SubSeq(fromDir, 1, Len(fromDir) - imp.up) \o imp.path
      last == Last(base)
      appended(e) == IF last.ext # "" THEN NoPath
                     ELSE SubSeq(base, 1, Len(base) - 1) \o << [last EXCEPT !.ext = e] >>
  IN << base >>
     \o [i \in 1..4 |-> appended(RESOLUTION_EXTENSIONS[i])]
     \o [i \in 1..4 |-> base \o << F("index", "", RESOLUTION_EXTENSIONS[i]) >>]

StatedResolution(fromFile, imp, disk) ==
  IF ~imp.rel \/ imp.up > Len(Dirname(fromFile)) THEN NoPath
  ELSE LET cands == StatedCandidates(fromFile, imp)
           hits == {i \in 1..Len(cands) : cands[i] \in disk}
       IN IF hits = {} THEN NoPath ELSE cands[MinOf(hits)]

\* C27: for every import specifier of every file the TS/JS pack reads,
\* resolveImport returns null when the specifier is not relative and
\* otherwise the first existing file among the literal path, the path with
\* .ts, .tsx, .js, .jsx appended and the index files inside it, whether or
\* not the last segment of the specifier contains a dot
C27_FirstExistingCandidate ==
  tsjsResult.ran =>
    \A f \in PackFileSet("tsjs") :
      (f \in DOMAIN ws.content /\ ws.content[f].readable) =>
        \A imp \in ws.content[f].specs :
          TsJs_resolveImport(f, imp, SeqToSet(ws.order))
            = StatedResolution(f, imp, SeqToSet(ws.order))

C29_CleanupEventuallyOnce ==
  /\ [](workspace.cleanups <= 1)
  /\ [](workspace.cleanups = 1 =>
          workspace.returned /\ hasCleanup /\ workspace.saveReport # "pending")
  /\ [](~hasCleanup => workspace.cleanups = 0)
  /\ ((workspace.returned /\ hasCleanup) ~> (workspace.cleanups = 1))

\* the request was answered with TIMEOUT, the report was saved afterwards
\* and the cleanup has run
C29_Witness ==
  /\ route = "responded" /\ response.code = "TIMEOUT"
  /\ workspace.returned /\ workspace.saveReport = "completed"
  /\ workspace.cleanups = 1
  /\ phase = "resolved"

\* C30: ingestFromGithub returns a workspace only if the first git clone or
\* the retry succeeded, the retry is made only for a requested branch that
\* the remote does not have, and when ingestFromGithub throws the temporary
\* directory is gone
C30_WorkspaceOnlyAfterClone ==
  /\ (workspace.returned /\ hasCleanup) => (clone.first = "ok" \/ clone.retry = "ok")
  /\ clone.retry # "none" => (clone.branch /\ clone.first = "branchNotFound")
  /\ (phase = "rejected" /\ ~workspace.returned /\ clone.first # "none") =>
       clone.dir = "removed"

====
